---- MODULE Spec2Model ----
EXTENDS Integers, Sequences, FiniteSets, TLC

(***************************************************************************)
(* Model of the cache-and-invalidation core of plana-core:                 *)
(*   - UserManager   (plana/services/manager.py)  user cache + dirty flush *)
(*   - GuildManager  (plana/services/manager.py)  guild settings cache     *)
(*   - RedisEventSubscriber (plana/services/sub.py) listen loop            *)
(*   - PlanaGateway  (plana/cogs/gateway.py)  event handlers, load/unload  *)
(* Every await on the backend is a suspension point: an operation that     *)
(* awaits is split into the step that issues the request and the step that *)
(* resumes with the response.                                              *)
(***************************************************************************)

\* ------------------------------------------------------------- bounds
NumUsers == 2
MaxCalls == 2
MaxInits == 1
MaxGuildCalls == 2
MaxEvents == 2
MaxMsgs == 3
MaxDeliveries == 2
MaxRefreshes == 2
MaxXp == 2

GuildIds == {1}
UserIds == 1..NumUsers
\* core.guilds, and a guild id that events carry but the process is not in.
CoreGuilds == {1}
UnservedGuilds == {2}
\* A guild served next to the modelled one: one of its users stands for the
\* cache entries of other guilds.
OtherGuildIds == {2}
HomeKeys == GuildIds \X UserIds
Keys == HomeKeys \cup (OtherGuildIds \X {1})
Props == {"levels", "user_data"}
\* Every feature call may be suspended on its fetch at the same time.
Tasks == 1..MaxCalls

\* A slot of user_data: 0 is a missing slot; n > 0 is the record dumped by the
\* n-th feature call (every update_property writes a distinguishable record).
Slots == 0..MaxCalls
\* User.user_data default_factory=dict
DefaultUserData == [p \in Props |-> 0]

VARIABLES
    users,        \* UserManager.users: key -> cache entry
    dirty_users,  \* UserManager.dirty_users
    store,        \* the backend's user records
    tasks,        \* feature calls suspended on a cache-miss fetch
    initing,      \* guilds whose UserManager.init awaits User.get_all
    flush,        \* the periodic user flush (batch_user_update_task)
    unacked,      \* history: records written and in no acknowledged write
    calls,        \* feature calls started so far (bounded)
    inits,        \* UserManager.init calls started so far (bounded)
    settings,     \* GuildManager.settings: guild id -> cached GuildSettings
    gstore,       \* the backend's sub-config records per guild
    gtasks,       \* GuildManager calls suspended on a sub-config fetch
    gcount,       \* guild calls, and events around them (admin changes, local
                  \* mutations, failed requests), so far (bounded)
    glast,        \* history: the last GuildManager call that returned
    bus,          \* RedisEventSubscriber: connection, handlers, _running
    loop,         \* the start_listening task: where it is, the event it handles
    inbox,        \* events the broker has for pubsub.listen(), oldest first
    blog,         \* history: messages published (bounded), what became of each
                  \* event received, and the handlers invoked
    cmdcfg,       \* the backend's command-bearing sub-configs of the guild
    registered,   \* the gateway's registered command names of the guild
    cfgcache,     \* the command-bearing sub-configs as GuildManager.settings caches them
    rec,          \* handle_guild_config_refresh: where it is, what it has seen
    rlast,        \* history: the last refresh event processed, and per name the
                  \* one before it
    life,         \* the process: gateway ready, the two flush timers, cog_unload
    tracker,      \* GuildDataTracker.dirty_guilds, and whether a flush of it raised
    mh,           \* handle_message_action: where it is, the envelope it handles
    sent,         \* messages sent to the gateway's channels, oldest first
    mstore,       \* the backend's message records, and the PUT calls made on them
    eh,           \* handle_message_action on MESSAGE_UPDATE / MESSAGE_DELETE
    gw,           \* history: gateway calls on channel messages; messages deleted
    gpush,        \* Guild.refresh: the push it is suspended on, who called it,
                  \* snapshots pushed per guild, and how the last guild flush ended
    gop,          \* GuildManager.reset / on_guild_remove: where it is, with the
                  \* history of the DELETEs it issued and the lists it found
    pdata,        \* User.user_data of one cached user: slot name -> dumped record
    plast         \* history: the last property call and what it returned, and per
                  \* record type the record last stored by update_property

uvars == <<users, dirty_users, store, tasks, initing, flush, unacked, calls, inits>>
gvars == <<settings, gstore, gtasks, gcount, glast>>
bvars == <<bus, loop, inbox, blog>>
rvars == <<cmdcfg, cfgcache, registered, rec, rlast>>
lvars == <<life, tracker>>
mvars == <<mh, sent, mstore>>
evars == <<eh, gw>>
wvars == <<gpush>>
xvars == <<gop>>
pvars == <<pdata, plast>>
vars == <<uvars, gvars, bvars, rvars, lvars, mvars, evars, wvars, xvars, pvars>>
\* What a step of one component leaves alone.
UOthers == <<gvars, bvars, rvars, lvars, mvars, evars, wvars, xvars, pvars>>
GOthers == <<uvars, bvars, rvars, lvars, mvars, evars, wvars, xvars, pvars>>
BOthers == <<uvars, gvars, rvars, lvars, mvars, evars, wvars, xvars, pvars>>
ROthers == <<uvars, gvars, bvars, lvars, mvars, evars, wvars, xvars, pvars>>
LOthers == <<uvars, gvars, bvars, rvars, mvars, evars, wvars, xvars, pvars>>
MOthers == <<uvars, gvars, bvars, rvars, lvars, evars, wvars, xvars, pvars>>
EOthers == <<uvars, gvars, bvars, rvars, lvars, mvars, wvars, xvars, pvars>>
WOthers == <<uvars, gvars, bvars, rvars, mvars, evars, xvars, pvars>>
XOthers == <<uvars, bvars, rvars, lvars, mvars, evars, wvars, pvars>>
POthers == <<uvars, gvars, bvars, rvars, lvars, mvars, evars, wvars, xvars>>

\* ------------------------------------------------------------- UserManager

NoEntry == [st |-> "absent", data |-> DefaultUserData]
NoneEntry == [st |-> "none", data |-> DefaultUserData]
UserEntry(d) == [st |-> "user", data |-> d]
NoRecord == [present |-> FALSE, data |-> DefaultUserData]
Record(d) == [present |-> TRUE, data |-> d]
IdleTask == [pc |-> "idle", op |-> "none", key |-> <<0, 0>>, prop |-> "none", val |-> 0]
\* flush.reqs: the PUT /users/bulk requests in flight, each a payload key -> user_data;
\* before / remarked are history: the dirty set when update_dirty was called, and
\* the keys update_property marked while the write was in flight.
IdleFlush == [pc |-> "idle", reqs |-> << >>, before |-> {}, remarked |-> {}]

mark_dirty(d, k) == d \cup {k}
mark_clean(d, k) == d \ {k}

\* A flush that writes back every cached user, dirty or not.
get_dirty_all_cached == [k \in {x \in Keys : users[x].st = "user"} |-> users[k].data]

\* UserManager.get_dirty: the cached User of every dirty key that is cached.
get_dirty == [k \in {x \in dirty_users : users[x].st # "absent"} |-> users[k].data]

\* User.bulk_update: the whole list is dumped into one PUT /users/bulk.
BulkRequests(snapshot) == <<snapshot>>

\* The keys UserManager.bulk_update marks clean after the await: every user of
\* the list it was given, whatever the response was.
CleanedByFlush(reqs, ok) == UNION {DOMAIN reqs[i] : i \in DOMAIN reqs}

\* The body of update_property after the await of UserManager.get: the record is
\* dumped into the slot of the cached User and the key is marked dirty; on a
\* cached None the attribute access raises and nothing is marked.
ApplyUpdate(us, d, k, p, v) ==
    IF us[k].st = "user"
    THEN [users |-> [us EXCEPT ![k].data[p] = v], dirty |-> mark_dirty(d, k), raised |-> FALSE]
    ELSE [users |-> us, dirty |-> d, raised |-> TRUE]

\* History: <<k, p, v>> is unacked from the update_property that wrote v into
\* slot p of key k until an acknowledged bulk write carries v in that slot; a
\* later write to the same slot supersedes it.
Written(un, k, p, v) == {t \in un : ~(t[1] = k /\ t[2] = p)} \cup {<<k, p, v>>}
Acked(un, reqs) ==
    {t \in un : ~(\E i \in DOMAIN reqs : t[1] \in DOMAIN reqs[i] /\ reqs[i][t[1]][t[2]] = t[3])}
Remark(k) == IF flush.pc = "put" THEN [flush EXCEPT !.remarked = @ \cup {k}] ELSE flush

\* Feature coroutines are anonymous: a new suspended call takes the first free slot.
FreeTask(t) == tasks[t].pc = "idle" /\ \A t2 \in Tasks : t2 < t => tasks[t2].pc # "idle"

\* UserManager.get on a cache hit: returns the cached entry.
GetHit(k) ==
    /\ UNCHANGED UOthers
    /\ calls < MaxCalls
    /\ users[k].st # "absent"
    /\ calls' = calls + 1
    /\ UNCHANGED <<users, dirty_users, store, tasks, initing, flush, unacked, inits>>

\* update_property on a cache hit: no suspension point.
UpdatePropertyHit(k, p) ==
    /\ UNCHANGED UOthers
    /\ calls < MaxCalls
    /\ users[k].st # "absent"
    /\ LET r == ApplyUpdate(users, dirty_users, k, p, calls + 1) IN
         /\ users' = r.users
         /\ dirty_users' = r.dirty
         /\ unacked' = IF r.raised THEN unacked ELSE Written(unacked, k, p, calls + 1)
         /\ flush' = IF r.raised THEN flush ELSE Remark(k)
    /\ calls' = calls + 1
    /\ UNCHANGED <<store, tasks, initing, inits>>

\* get / update_property on a cache miss: UserManager.refresh awaits User.get.
CallMiss(t, op, k, p) ==
    /\ UNCHANGED UOthers
    /\ calls < MaxCalls
    /\ users[k].st = "absent"
    /\ FreeTask(t)
    /\ tasks' = [tasks EXCEPT ![t] = [pc |-> "get", op |-> op, key |-> k, prop |-> p,
                                      val |-> calls + 1]]
    /\ calls' = calls + 1
    /\ UNCHANGED <<users, dirty_users, store, initing, flush, unacked, inits>>

\* UserManager.refresh resumes with the fetched entry: it replaces the cache
\* entry, marks the key clean, and the suspended call runs to its end.
Resume(t, entry) ==
    LET c == tasks[t]
        k == c.key
        us == [users EXCEPT ![k] = entry]
        d == mark_clean(dirty_users, k)
        r == IF c.op = "update_property" THEN ApplyUpdate(us, d, k, c.prop, c.val)
             ELSE [users |-> us, dirty |-> d, raised |-> TRUE]
    IN  /\ users' = r.users
        /\ dirty_users' = r.dirty
        /\ unacked' = IF r.raised THEN unacked ELSE Written(unacked, k, c.prop, c.val)
        /\ flush' = IF r.raised THEN flush ELSE Remark(k)
        /\ tasks' = [tasks EXCEPT ![t] = IdleTask]

\* User.get: the GET answers; an empty or failed response leads to User.create.
FetchGet(t, ok) ==
    /\ UNCHANGED UOthers
    /\ tasks[t].pc = "get"
    /\ IF ok /\ store[tasks[t].key].present
       THEN /\ Resume(t, UserEntry(store[tasks[t].key].data))
            /\ UNCHANGED <<store, initing, calls, inits>>
       ELSE /\ tasks' = [tasks EXCEPT ![t].pc = "create"]
            /\ UNCHANGED <<users, dirty_users, store, initing, flush, unacked, calls, inits>>

\* User.create: the POST answers with the record, or fails and the call gets None.
FetchCreate(t, ok) ==
    /\ UNCHANGED UOthers
    /\ tasks[t].pc = "create"
    /\ LET k == tasks[t].key
           st == IF ok /\ ~store[k].present
                 THEN [store EXCEPT ![k] = Record(DefaultUserData)] ELSE store
       IN /\ store' = st
          /\ Resume(t, IF ok THEN UserEntry(st[k].data) ELSE NoneEntry)
    /\ UNCHANGED <<initing, calls, inits>>

\* User.get_all(guild_id): the keys of the users the backend lists for the
\* guild, none when the request fails.
get_all_guilds(g, ok) == IF ok THEN {k \in Keys : store[k].present} ELSE {}
get_all(g, ok) == IF ok THEN {k \in Keys : k[1] = g /\ store[k].present} ELSE {}

\* UserManager.init: awaits User.get_all(guild_id).
InitStart(g) ==
    /\ UNCHANGED UOthers
    /\ inits < MaxInits
    /\ g \notin initing
    /\ initing' = initing \cup {g}
    /\ inits' = inits + 1
    /\ UNCHANGED <<users, dirty_users, store, tasks, flush, unacked, calls>>

\* UserManager.init resumes: every returned user is cached and marked clean.
InitDone(g, ok) ==
    /\ UNCHANGED UOthers
    /\ g \in initing
    /\ LET got == get_all(g, ok) IN
         /\ users' = [k \in Keys |-> IF k \in got THEN UserEntry(store[k].data) ELSE users[k]]
         /\ dirty_users' = dirty_users \ got
    /\ initing' = initing \ {g}
    /\ UNCHANGED <<store, tasks, flush, unacked, calls, inits>>

\* batch_user_update_task: returns at once when nothing is dirty; otherwise
\* update_dirty dumps get_dirty() into the bulk write and awaits it.
FlushStart ==
    /\ UNCHANGED UOthers
    /\ flush.pc = "idle"
    /\ dirty_users # {}
    /\ flush' = [pc |-> "put", reqs |-> BulkRequests(get_dirty), before |-> dirty_users,
                 remarked |-> {}]
    /\ UNCHANGED <<users, dirty_users, store, tasks, initing, unacked, calls, inits>>

\* UserManager.bulk_update resumes: make_request returned the body, or {} on
\* any error; the response is not looked at before the keys are marked clean.
FlushDone(ok) ==
    /\ UNCHANGED UOthers
    /\ flush.pc = "put"
    /\ store' = IF ok
                THEN [k \in Keys |->
                        IF \E i \in DOMAIN flush.reqs : k \in DOMAIN flush.reqs[i]
                        THEN Record(flush.reqs[CHOOSE i \in DOMAIN flush.reqs :
                                                  k \in DOMAIN flush.reqs[i]][k])
                        ELSE store[k]]
                ELSE store
    /\ dirty_users' = dirty_users \ CleanedByFlush(flush.reqs, ok)
    /\ unacked' = IF ok THEN Acked(unacked, flush.reqs) ELSE unacked
    /\ flush' = IdleFlush
    /\ UNCHANGED <<users, tasks, initing, calls, inits>>

\* ------------------------------------------------------------- UserManager: typed properties
\* The record types the features pass to get_property / update_property.
PropertyTypes == {"UserDataField", "UserLevelData", "UserStats"}
\* The fields of a record type, and the ones model_dump leaves out (exclude=True).
ModelFields(cls) ==
    CASE cls = "UserLevelData" -> {"user_id", "xp", "level", "messages_sent"}
      [] cls = "UserStats" -> {"message_count"}
      [] OTHER -> {}
ExcludedFields(cls) == IF cls = "UserLevelData" THEN {"user_id"} ELSE {}
\* Field defaults: user_id defaults to None (0), every counter to 0.
FieldDefault(f) == 0
FieldValues(f) == IF f = "xp" THEN 0..MaxXp ELSE {0, 1}
\* The typed records of a type.
Records(cls) == [ModelFields(cls) -> 0..MaxXp] \cap
                    {r \in [ModelFields(cls) -> 0..MaxXp] :
                        \A f \in ModelFields(cls) : r[f] \in FieldValues(f)}
\* cls.__property__: UserDataField declares "user_data", UserLevelData "levels";
\* UserStats derives from PlanaModel and has none (reading it raises).
PropertyName(cls) ==
    CASE cls = "UserDataField" -> "user_data"
      [] cls = "UserLevelData" -> "levels"
      [] OTHER -> "AttributeError"
PropertySlots == {"user_data", "levels"}
\* record.model_dump(mode="json"): a dict of the fields that are not excluded.
model_dump(cls, r) == [f \in ModelFields(cls) \ ExcludedFields(cls) |-> r[f]]
\* cls.model_validate(value): the dict's keys that are fields, defaults for the rest.
model_validate(cls, value) ==
    [f \in ModelFields(cls) |-> IF f \in DOMAIN value THEN value[f] ELSE FieldDefault(f)]
EmptyDict == [f \in {} |-> 0]
AbsentSlot == [present |-> FALSE, value |-> EmptyDict]
StoredSlot(value) == [present |-> TRUE, value |-> value]
NotWritten == [set |-> FALSE, rec |-> EmptyDict]
NoPropertyCall == [op |-> "none", cls |-> "none", ret |-> "none", value |-> EmptyDict,
                   written |-> [c \in PropertyTypes |-> NotWritten]]

\* UserManager.get_property on a cached user: creates the empty slot if it is
\* missing, validates the slot's dict (or {} when it is empty) into the type.
GetProperty(cls) ==
    /\ UNCHANGED POthers
    /\ IF PropertyName(cls) \notin PropertySlots
       THEN /\ plast' = [plast EXCEPT !.op = "get_property", !.cls = cls,
                                      !.ret = "AttributeError", !.value = EmptyDict]
            /\ UNCHANGED pdata
       ELSE LET p == PropertyName(cls)
                slot == IF pdata[p].present THEN pdata[p] ELSE StoredSlot(EmptyDict)
            IN  /\ pdata' = [pdata EXCEPT ![p] = slot]
                /\ plast' = [plast EXCEPT !.op = "get_property", !.cls = cls,
                                          !.ret = "record",
                                          !.value = model_validate(cls, slot.value)]

\* UserManager.update_property on a cached user: stores the dumped record in
\* the slot named by the record's class.
UpdateProperty(cls, r) ==
    /\ UNCHANGED POthers
    /\ IF PropertyName(cls) \notin PropertySlots
       THEN /\ plast' = [plast EXCEPT !.op = "update_property", !.cls = cls,
                                      !.ret = "AttributeError", !.value = EmptyDict]
            /\ UNCHANGED pdata
       ELSE /\ pdata' = [pdata EXCEPT ![PropertyName(cls)] = StoredSlot(model_dump(cls, r))]
            /\ plast' = [plast EXCEPT !.op = "update_property", !.cls = cls,
                                      !.ret = "none", !.value = EmptyDict,
                                      !.written[cls] = [set |-> TRUE, rec |-> r]]

PInit ==
    /\ pdata = [p \in PropertySlots |-> AbsentSlot]
    /\ plast = NoPropertyCall

NextProperty ==
    \/ \E cls \in PropertyTypes : GetProperty(cls)
    \/ \E cls \in PropertyTypes : \E r \in Records(cls) : UpdateProperty(cls, r)

\* ------------------------------------------------------------- GuildManager

\* GuildSettings.get fetches the sub-configs in this order.
FetchOrder == <<"preferences", "levels", "welcome", "achievements", "ai",
                "react_roles", "rss_feeds">>
Fields == {FetchOrder[i] : i \in DOMAIN FetchOrder}
\* Every sub-config, the two lists too, is created when its GET finds nothing.
SingletonsAndLists == {"preferences", "levels", "welcome", "achievements", "ai",
                       "react_roles", "rss_feeds"}

\* X.get falls back to X.create; ReactRoleSetting.get_all and RssFeed.get_all do not.
Singletons == {"preferences", "levels", "welcome", "achievements", "ai"}
\* The setting names GuildManager.refresh is called with.
Names == {"preferences", "levels", "welcome", "achievements", "react_roles", "rss", "ai",
          "music"}
\* A refresh whose last branch takes every other name for the feeds.
FieldOfElseFeeds(name) ==
    CASE name = "rss" -> "rss_feeds"
      [] name \in {"preferences", "levels", "welcome", "achievements", "react_roles", "ai"}
           -> name
      [] OTHER -> "rss_feeds"

\* The field a setting name refreshes ("none": no branch of refresh matches).
FieldOf(name) ==
    CASE name = "rss" -> "rss_feeds"
      [] name \in {"preferences", "levels", "welcome", "achievements", "react_roles", "ai"}
           -> name
      [] OTHER -> "none"

\* A sub-config value: 0 is None (or the empty list); 1 the record the backend
\* creates by default; 2 a record an admin changed out of band; 3 a cached
\* object that feature code mutated locally.
NoFields == [f \in Fields |-> 0]
\* oid names the GuildSettings instance (0: no entry for the guild).
NoSettings == [oid |-> 0, f |-> NoFields]
IdleGTask == [pc |-> "idle", op |-> "none", g |-> 0, todo |-> << >>, acc |-> NoFields,
              oid |-> 0, id |-> 0, gets |-> 0, missed |-> {}, posted |-> {},
              unavail |-> {}, sibmut |-> FALSE]
\* gets: GET requests issued; missed: fields whose GET came back empty or
\* failed; posted: fields a creation POST was issued for; unavail: fields the
\* call ended up with nothing for.
NoCall == [op |-> "none", g |-> 0, raised |-> FALSE, gets |-> 0, missed |-> {},
           posted |-> {}, unavail |-> {}, field |-> "none", sibmut |-> FALSE]

\* A request that lets the exception out instead of logging it.
make_request_uncaught(out, body) == IF out = "ok" THEN body ELSE -1

\* make_request: the response body, or {} after logging on HTTPStatusError and
\* on any other exception. 0 is the empty body; -1 would be a raised exception.
make_request(out, body) == IF out = "ok" THEN body ELSE 0

\* A partial refresh that builds a fresh GuildSettings holding only the field.
PartialApplyFresh(entry, field, v) ==
    [oid |-> entry.oid, f |-> [x \in Fields |-> IF x = field THEN v ELSE 0]]

\* guild.<field> = <fetched>: the assignment of a partial refresh.
PartialApply(entry, field, v) == [entry EXCEPT !.f[field] = v]

\* The suspended GuildManager calls the model follows at once: one full fetch
\* (get on a miss, refresh without a name) and one partial refresh.
GTasks == {"full", "partial"}
FreeGTask(t, op) == gtasks[t].pc = "idle" /\ t = (IF op = "partial" THEN "partial" ELSE "full")

\* A get that fetches the guild again although it is cached.
GuildGetRefetch(g) ==
    /\ UNCHANGED GOthers
    /\ gcount.calls < MaxGuildCalls
    /\ settings[g].oid # 0
    /\ gtasks["full"].pc = "idle"
    /\ gtasks' = [gtasks EXCEPT !["full"] =
                    [IdleGTask EXCEPT !.pc = "get", !.op = "get", !.g = g, !.todo = FetchOrder,
                                      !.id = gcount.calls + 1, !.gets = 1]]
    /\ gcount' = [gcount EXCEPT !.calls = @ + 1]
    /\ glast' = [NoCall EXCEPT !.op = "get_hit", !.g = g]
    /\ UNCHANGED <<settings, gstore>>

\* GuildManager.get on a cache hit.
GuildGetHit(g) ==
    /\ UNCHANGED GOthers
    /\ gcount.calls < MaxGuildCalls
    /\ settings[g].oid # 0
    /\ gcount' = [gcount EXCEPT !.calls = @ + 1]
    /\ glast' = [NoCall EXCEPT !.op = "get_hit", !.g = g]
    /\ UNCHANGED <<settings, gstore, gtasks>>

\* GuildManager.get on a miss, or GuildManager.refresh with no name or no
\* cached entry: GuildSettings.get awaits the first sub-config fetch.
GuildFullStart(t, op, g) ==
    /\ UNCHANGED GOthers
    /\ gcount.calls < MaxGuildCalls
    /\ \/ op = "get" /\ settings[g].oid = 0
       \/ op = "refresh"
    /\ FreeGTask(t, op)
    /\ gtasks' = [gtasks EXCEPT ![t] =
                    [IdleGTask EXCEPT !.pc = "get", !.op = op, !.g = g, !.todo = FetchOrder,
                                      !.id = gcount.calls + 1, !.gets = 1]]
    /\ gcount' = [gcount EXCEPT !.calls = @ + 1]
    /\ UNCHANGED <<settings, gstore, glast>>

\* GuildManager.refresh(g, name) with a cached entry: the entry is read, then
\* the one sub-config is fetched; an unknown name fetches nothing.
GuildPartialStart(t, g, name) ==
    /\ UNCHANGED GOthers
    /\ gcount.calls < MaxGuildCalls
    /\ settings[g].oid # 0
    /\ IF FieldOf(name) = "none"
       THEN /\ glast' = [NoCall EXCEPT !.op = "partial", !.g = g]
            /\ UNCHANGED gtasks
       ELSE /\ FreeGTask(t, "partial")
            /\ gtasks' = [gtasks EXCEPT ![t] =
                            [IdleGTask EXCEPT !.pc = "get", !.op = "partial", !.g = g,
                                              !.todo = <<FieldOf(name)>>,
                                              !.oid = settings[g].oid,
                                              !.id = gcount.calls + 1, !.gets = 1]]
            /\ UNCHANGED glast
    /\ gcount' = [gcount EXCEPT !.calls = @ + 1]
    /\ UNCHANGED <<settings, gstore>>

\* The call of task c returns: a full fetch caches a new GuildSettings built
\* from the fetched sub-configs; a partial one assigns the field of the
\* instance it read before the await.
GuildReturn(t, c) ==
    LET g == c.g
        field == c.todo[1]
        entry == IF c.op = "partial"
                 THEN IF settings[g].oid = c.oid
                      THEN PartialApply(settings[g], field, c.acc[field])
                      ELSE settings[g]
                 ELSE [oid |-> c.id, f |-> c.acc]
    IN /\ settings' = [settings EXCEPT ![g] = entry]
       /\ gtasks' = [gtasks EXCEPT ![t] = IdleGTask]
       /\ glast' = [op |-> c.op, g |-> g, raised |-> FALSE, gets |-> c.gets,
                    missed |-> c.missed, posted |-> c.posted, unavail |-> c.unavail,
                    field |-> IF c.op = "partial" THEN field ELSE "none",
                    sibmut |-> c.sibmut]

\* An exception leaves the call: nothing is cached.
GuildRaise(t, c) ==
    /\ gtasks' = [gtasks EXCEPT ![t] = IdleGTask]
    /\ glast' = [NoCall EXCEPT !.op = c.op, !.g = c.g, !.raised = TRUE, !.gets = c.gets,
                               !.posted = c.posted]
    /\ UNCHANGED settings

\* The fetch of one sub-config ended with value v: the next one is requested,
\* or the call returns.
GuildAdvance(t, c, v, gone) ==
    LET c2 == [c EXCEPT !.acc[c.todo[1]] = v,
                        !.unavail = IF gone THEN @ \cup {c.todo[1]} ELSE @]
    IN IF Len(c.todo) > 1
       THEN /\ gtasks' = [gtasks EXCEPT ![t] =
                            [c2 EXCEPT !.pc = "get", !.todo = Tail(@), !.gets = @ + 1]]
            /\ UNCHANGED <<settings, glast>>
       ELSE GuildReturn(t, c2)

\* The backend answers a request: it succeeds, or fails (a bounded number of times).
Answer(out) ==
    /\ out = "fail" => gcount.events < MaxEvents
    /\ gcount' = IF out = "fail" THEN [gcount EXCEPT !.events = @ + 1] ELSE gcount

\* X.get / X.get_all resumes with the GET's response.
GuildFetchGet(t, out) ==
    /\ UNCHANGED GOthers
    /\ gtasks[t].pc = "get"
    /\ Answer(out)
    /\ LET field == gtasks[t].todo[1]
           response == make_request(out, gstore[gtasks[t].g][field])
           c == IF response > 0 THEN gtasks[t]
                ELSE [gtasks[t] EXCEPT !.missed = @ \cup {field}]
       IN IF response < 0 THEN GuildRaise(t, c)
          ELSE IF response > 0 THEN GuildAdvance(t, c, response, FALSE)
          ELSE IF field \in Singletons
               THEN /\ gtasks' = [gtasks EXCEPT ![t] = [c EXCEPT !.pc = "create"]]
                    /\ UNCHANGED <<settings, glast>>
               ELSE GuildAdvance(t, c, 0, TRUE)
    /\ UNCHANGED gstore

\* X.create resumes with the POST's response: the created record, or None.
GuildFetchCreate(t, out) ==
    /\ UNCHANGED GOthers
    /\ gtasks[t].pc = "create"
    /\ Answer(out)
    /\ LET c == [gtasks[t] EXCEPT !.posted = @ \cup {gtasks[t].todo[1]}]
           field == c.todo[1]
           gs == IF out = "ok" /\ gstore[c.g][field] = 0
                 THEN [gstore EXCEPT ![c.g][field] = 1] ELSE gstore
           response == make_request(out, gs[c.g][field])
       IN /\ gstore' = gs
          /\ IF response < 0 THEN GuildRaise(t, c)
             ELSE GuildAdvance(t, c, response, response = 0)

\* The sub-configs the model changes behind a call's back: the first one
\* fetched, a singleton in the middle, and the list fetched last.
ChangedFields == {"preferences", "levels", "rss_feeds"}

\* An admin changes a sub-config of the guild out of band.
AdminChange(g, field) ==
    /\ UNCHANGED GOthers
    /\ gcount.events < MaxEvents
    /\ gstore' = [gstore EXCEPT ![g][field] = 2]
    /\ gcount' = [gcount EXCEPT !.events = @ + 1]
    /\ UNCHANGED <<settings, gtasks, glast>>

\* Feature code mutates a cached sub-config object in place (a list can be
\* appended to; a None sub-config has nothing to mutate).
LocalMutate(g, field) ==
    /\ UNCHANGED GOthers
    /\ gcount.events < MaxEvents
    /\ settings[g].oid # 0
    /\ field \in Singletons => settings[g].f[field] # 0
    /\ settings' = [settings EXCEPT ![g].f[field] = 3]
    /\ gtasks' = [t \in DOMAIN gtasks |->
                    IF gtasks[t].op = "partial" /\ gtasks[t].g = g /\ gtasks[t].todo[1] # field
                    THEN [gtasks[t] EXCEPT !.sibmut = TRUE] ELSE gtasks[t]]
    /\ gcount' = [gcount EXCEPT !.events = @ + 1]
    /\ UNCHANGED <<gstore, glast>>

GInit ==
    /\ settings = [g \in GuildIds |-> NoSettings]
    /\ gstore = [g \in GuildIds |-> NoFields]
    /\ gtasks = [t \in GTasks |-> IdleGTask]
    /\ gcount = [calls |-> 0, events |-> 0]
    /\ glast = NoCall

NextGuild ==
    \/ \E g \in GuildIds : GuildGetHit(g)
    \/ \E t \in GTasks, g \in GuildIds, op \in {"get", "refresh"} :
          GuildFullStart(t, op, g)
    \/ \E t \in GTasks, g \in GuildIds, name \in Names : GuildPartialStart(t, g, name)
    \/ \E t \in GTasks, out \in {"ok", "fail"} : GuildFetchGet(t, out)
    \/ \E t \in GTasks, out \in {"ok", "fail"} : GuildFetchCreate(t, out)
    \/ \E g \in GuildIds, field \in ChangedFields : AdminChange(g, field)
    \/ \E g \in GuildIds, field \in ChangedFields : LocalMutate(g, field)

\* ------------------------------------------------------------- GuildManager: reset and guild removal
\* GuildSettings.delete, request by request: the five singleton DELETEs, then
\* for each list its get_all and the DELETE of what that found.
ResetProgram ==
    << <<"delete", "preferences">>, <<"delete", "levels">>, <<"delete", "welcome">>,
       <<"delete", "achievements">>, <<"delete", "ai">>,
       <<"list", "react_roles">>, <<"delete", "react_roles">>,
       <<"list", "rss_feeds">>, <<"delete", "rss_feeds">> >>

ResetPhaseEarly(at) == IF at > 1 THEN "refresh" ELSE ResetProgram[at][1]

\* GuildSettings.reset at request at of GuildSettings.delete: GuildSettings.get
\* follows the last of them.
ResetPhase(at) == IF at > Len(ResetProgram) THEN "refresh" ELSE ResetProgram[at][1]

\* GuildManager.settings[guild_id] = <the GuildSettings that reset or get
\* built>: the composite of what was fetched, in place of the entry before.
ResetEntry(old, id, acc) == [oid |-> id, f |-> acc]

IdleGop == [pc |-> "idle", op |-> "none", g |-> 0, at |-> 0, acc |-> NoFields, id |-> 0,
            dels |-> {}, found |-> {}, failed |-> FALSE]

\* The backend answers a request of the reset or removal under way: at most
\* one of its requests fails.
GopAnswer(out) == out = "fail" => ~gop.failed
Answered(out) == [gop EXCEPT !.failed = (@ \/ out = "fail")]

\* The reset or removal goes on with request at of GuildSettings.delete, or
\* with the first fetch of GuildSettings.get.
GopAt(c, at) ==
    IF ResetPhase(at) = "refresh"
    THEN [c EXCEPT !.pc = "get", !.at = 1]
    ELSE IF ResetPhase(at) = "delete"
    THEN [c EXCEPT !.pc = "delete", !.at = at, !.dels = @ \cup {ResetProgram[at][2]}]
    ELSE [c EXCEPT !.pc = "list", !.at = at]

\* GuildManager.reset(g): GuildSettings.reset awaits GuildSettings.delete,
\* whose first request is the DELETE of the preferences.
GuildResetStart(g) ==
    /\ UNCHANGED XOthers
    /\ gcount.calls < MaxGuildCalls
    /\ gop.pc = "idle"
    /\ gop' = GopAt([IdleGop EXCEPT !.op = "reset", !.g = g, !.id = gcount.calls + 1], 1)
    /\ gcount' = [gcount EXCEPT !.calls = @ + 1]
    /\ UNCHANGED <<settings, gstore, gtasks, glast>>

\* A DELETE answered: the backend dropped the record, or the request failed
\* and make_request returned {}; the next request follows either way.
GuildDeleteDone(out) ==
    /\ UNCHANGED XOthers
    /\ gop.pc = "delete"
    /\ GopAnswer(out)
    /\ gstore' = IF out = "ok"
                 THEN [gstore EXCEPT ![gop.g][ResetProgram[gop.at][2]] = 0]
                 ELSE gstore
    /\ gop' = GopAt(Answered(out), gop.at + 1)
    /\ UNCHANGED <<settings, gtasks, gcount, glast>>

\* get_all of a list answered inside GuildSettings.delete: what it found is
\* deleted next; an empty or failed answer leaves nothing to delete.
GuildListFetched(out) ==
    /\ UNCHANGED XOthers
    /\ gop.pc = "list"
    /\ GopAnswer(out)
    /\ LET field == ResetProgram[gop.at][2]
           response == make_request(out, gstore[gop.g][field])
       IN  gop' = IF response > 0
                  THEN GopAt([Answered(out) EXCEPT !.found = @ \cup {field}], gop.at + 1)
                  ELSE GopAt(Answered(out), gop.at + 2)
    /\ UNCHANGED <<settings, gstore, gtasks, gcount, glast>>

\* What on_guild_remove does with the settings GuildManager.get returned:
\* without preferences it returns; else it clears preferences.enabled on the
\* cached object and awaits preferences.save().
RemoveWith(c) ==
    IF settings'[c.g].f["preferences"] = 0
    THEN gop' = [c EXCEPT !.pc = "idle"]
    ELSE gop' = [c EXCEPT !.pc = "save"]

\* GuildSettings.get ended with the sub-configs c.acc: the composite is
\* cached; reset returns it, on_guild_remove goes on with it.
GopCached(c) ==
    /\ IF c.op = "remove" /\ c.acc["preferences"] # 0
       THEN settings' = [settings EXCEPT
                             ![c.g] = [ResetEntry(@, c.id, c.acc) EXCEPT !.f["preferences"] = 3]]
       ELSE settings' = [settings EXCEPT ![c.g] = ResetEntry(@, c.id, c.acc)]
    /\ IF c.op = "remove" THEN RemoveWith(c) ELSE gop' = [c EXCEPT !.pc = "idle"]

\* The fetch of sub-config at of GuildSettings.get ended with value v.
GopAdvance(c, v) ==
    LET c2 == [c EXCEPT !.acc[FetchOrder[c.at]] = v] IN
    IF c.at < Len(FetchOrder)
    THEN /\ gop' = [c2 EXCEPT !.pc = "get", !.at = @ + 1]
         /\ UNCHANGED settings
    ELSE GopCached(c2)

\* X.get / X.get_all of GuildSettings.get answered.
GopFetchGet(out) ==
    /\ UNCHANGED XOthers
    /\ gop.pc = "get"
    /\ GopAnswer(out)
    /\ LET field == FetchOrder[gop.at]
           response == make_request(out, gstore[gop.g][field])
       IN IF response > 0 THEN GopAdvance(Answered(out), response)
          ELSE IF field \in Singletons
               THEN /\ gop' = [Answered(out) EXCEPT !.pc = "create"]
                    /\ UNCHANGED settings
               ELSE GopAdvance(Answered(out), 0)
    /\ UNCHANGED <<gstore, gtasks, gcount, glast>>

\* X.create of GuildSettings.get answered.
GopFetchCreate(out) ==
    /\ UNCHANGED XOthers
    /\ gop.pc = "create"
    /\ GopAnswer(out)
    /\ LET field == FetchOrder[gop.at]
           gs == IF out = "ok" /\ gstore[gop.g][field] = 0
                 THEN [gstore EXCEPT ![gop.g][field] = 1] ELSE gstore
       IN /\ gstore' = gs
          /\ GopAdvance(Answered(out), make_request(out, gs[gop.g][field]))
    /\ UNCHANGED <<gtasks, gcount, glast>>

\* on_guild_remove(g): GuildManager.get answers from the cache, or awaits
\* GuildSettings.get and caches what it built.
GuildRemoveStart(g) ==
    /\ UNCHANGED XOthers
    /\ gcount.calls < MaxGuildCalls
    /\ gop.pc = "idle"
    /\ LET c == [IdleGop EXCEPT !.op = "remove", !.g = g, !.id = gcount.calls + 1] IN
       IF settings[g].oid = 0
       THEN /\ gop' = [c EXCEPT !.pc = "get", !.at = 1]
            /\ UNCHANGED settings
       ELSE /\ settings' = IF settings[g].f["preferences"] = 0 THEN settings
                           ELSE [settings EXCEPT ![g].f["preferences"] = 3]
            /\ RemoveWith(c)
    /\ gcount' = [gcount EXCEPT !.calls = @ + 1]
    /\ UNCHANGED <<gstore, gtasks, glast>>

\* preferences.save() answered (the PUT stored the disabled preferences, or
\* failed); Guild.delete(g) is awaited next.
GuildRemoveSaved(out) ==
    /\ UNCHANGED XOthers
    /\ gop.pc = "save"
    /\ GopAnswer(out)
    /\ gstore' = IF out = "ok" THEN [gstore EXCEPT ![gop.g]["preferences"] = 3] ELSE gstore
    /\ gop' = [Answered(out) EXCEPT !.pc = "gdelete"]
    /\ UNCHANGED <<settings, gtasks, gcount, glast>>

\* Guild.delete(g) answered: the handler returns.
GuildRemoveDone(out) ==
    /\ UNCHANGED XOthers
    /\ gop.pc = "gdelete"
    /\ GopAnswer(out)
    /\ gop' = [Answered(out) EXCEPT !.pc = "idle"]
    /\ UNCHANGED <<settings, gstore, gtasks, gcount, glast>>

XInit == gop = IdleGop

\* Resets and removals of a guild, one after the other, while its levels are
\* refreshed by name and an admin changes its levels and its feeds.
NextGuildReset ==
    \/ \E g \in GuildIds : GuildPartialStart("partial", g, "levels")
    \/ \E out \in {"ok", "fail"} : GuildFetchGet("partial", out)
    \/ \E out \in {"ok", "fail"} : GuildFetchCreate("partial", out)
    \/ \E g \in GuildIds, field \in {"levels", "rss_feeds"} : AdminChange(g, field)
    \/ \E g \in GuildIds : GuildResetStart(g)
    \/ \E out \in {"ok", "fail"} : GuildDeleteDone(out)
    \/ \E out \in {"ok", "fail"} : GuildListFetched(out)
    \/ \E out \in {"ok", "fail"} : GopFetchGet(out)
    \/ \E out \in {"ok", "fail"} : GopFetchCreate(out)
    \/ \E g \in GuildIds : GuildRemoveStart(g)
    \/ \E out \in {"ok", "fail"} : GuildRemoveSaved(out)
    \/ \E out \in {"ok", "fail"} : GuildRemoveDone(out)

\* ------------------------------------------------------------- RedisEventSubscriber

\* PlanaEvents
Kinds == {"MESSAGE_CREATE", "MESSAGE_UPDATE", "MESSAGE_DELETE", "COMMAND_REGISTER",
          "COMMAND_UNREGISTER", "GUILD_CONFIG_REFRESH"}
\* The kinds PlanaGateway.cog_load registers a handler for.
GatewayKinds == {"MESSAGE_CREATE", "MESSAGE_DELETE", "MESSAGE_UPDATE", "GUILD_CONFIG_REFRESH"}
\* The data of a published message: a JSON envelope of some kind, or text that
\* EventPayload.model_validate_json rejects.
Payloads == Kinds \cup {"malformed"}
\* The payloads the model publishes: a kind of each handler cog_load
\* registers, a kind without a handler, and undecodable text.
Published == {"GUILD_CONFIG_REFRESH", "MESSAGE_CREATE", "COMMAND_REGISTER", "malformed"}
Event(type, data) == [type |-> type, data |-> data]
NoEvent == Event("none", "none")

\* A dispatcher whose try block covers only the decoding.
handle_event_except_decode(failure) == IF failure = "decode" THEN "logged" ELSE "raised"

\* _handle_event: decoding and the handler run inside one try; except Exception
\* logs whatever either raised.
handle_event_except(failure) == "logged"

\* The loop after _handle_event hit a failure: it goes on to the next event
\* unless the exception left _handle_event.
AfterFailure(failure) ==
    IF handle_event_except(failure) = "logged" THEN "waiting" ELSE "crashed"

Outcome(ev, what) == <<ev.data, what>>

\* A dispatcher that falls back to some handler for a kind without one.
HasHandlerOrDefault(handlers, kind) == TRUE
\* self._handlers.get(event_data.event): only a registered kind has a handler.
HasHandler(handlers, kind) == kind \in handlers

\* register_handler, as cog_load calls it: four registrations with no await between.
RegisterHandlers ==
    /\ UNCHANGED BOthers
    /\ bus.handlers # GatewayKinds
    /\ bus' = [bus EXCEPT !.handlers = GatewayKinds]
    /\ UNCHANGED <<loop, inbox, blog>>

\* connect: opens the client and its pubsub when redis_client is None, and
\* does nothing otherwise. blog.connect tells what the last connect() did.
Connect ==
    /\ UNCHANGED BOthers
    /\ bus' = IF bus.client THEN bus ELSE [bus EXCEPT !.client = TRUE, !.pubsub = TRUE]
    /\ blog' = [blog EXCEPT !.connect = IF bus.client THEN "kept" ELSE "opened"]
    /\ UNCHANGED <<loop, inbox>>

\* disconnect: closes the pubsub and the client; neither attribute is reset.
\* The broker drops the subscription and what it had queued for it.
Disconnect ==
    /\ UNCHANGED BOthers
    /\ bus.client
    /\ ~bus.closed
    /\ bus' = [bus EXCEPT !.closed = TRUE, !.subscribed = FALSE]
    /\ inbox' = << >>
    /\ blog' = [blog EXCEPT !.connect = "none"]
    /\ UNCHANGED loop

\* subscribe_to_guilds(): connects if needed, then psubscribe("events:*"); the
\* broker confirms with a psubscribe event.
Subscribe ==
    /\ UNCHANGED BOthers
    /\ ~bus.subscribed
    /\ ~bus.closed
    /\ bus' = [bus EXCEPT !.client = TRUE, !.pubsub = TRUE, !.subscribed = TRUE]
    /\ inbox' = Append(inbox, Event("psubscribe", "none"))
    /\ UNCHANGED <<loop, blog>>

\* The body of start_listening up to pubsub.listen(): RuntimeError without a
\* pubsub; otherwise _running is set and the task waits in pubsub.listen().
StartListeningBody ==
    IF bus.pubsub
    THEN /\ bus' = [bus EXCEPT !.running = TRUE]
         /\ loop' = [pc |-> "waiting", cur |-> NoEvent]
    ELSE /\ loop' = [pc |-> "refused", cur |-> NoEvent]
         /\ UNCHANGED bus

\* start_listening, called and run at once. blog.stopped tells whether
\* stop_listening has returned since start_listening was last called.
StartListening ==
    /\ UNCHANGED BOthers
    /\ loop.pc \in {"none", "refused", "exited", "failed"}
    /\ StartListeningBody
    /\ loop' # loop
    /\ blog' = [blog EXCEPT !.stopped = FALSE]
    /\ UNCHANGED inbox

\* asyncio.create_task(self.subscriber.start_listening()): the task exists
\* but has not run yet.
ListenTaskCreated ==
    /\ UNCHANGED BOthers
    /\ loop.pc \in {"none", "refused", "exited", "failed"}
    /\ loop' = [pc |-> "created", cur |-> NoEvent]
    /\ blog' = [blog EXCEPT !.stopped = FALSE]
    /\ UNCHANGED <<bus, inbox>>

\* The event loop runs the created task for the first time.
ListenTaskRuns ==
    /\ UNCHANGED BOthers
    /\ loop.pc = "created"
    /\ StartListeningBody
    /\ UNCHANGED <<inbox, blog>>

\* stop_listening: clears _running and nothing else.
StopListening ==
    /\ UNCHANGED BOthers
    /\ bus.running \/ (loop.pc = "created" /\ ~blog.stopped)
    /\ bus' = [bus EXCEPT !.running = FALSE]
    /\ blog' = [blog EXCEPT !.stopped = TRUE]
    /\ UNCHANGED <<loop, inbox>>

\* Some process publishes on a guild topic; the broker queues it for this
\* subscriber when its pattern subscription is in place.
Publish(data) ==
    /\ UNCHANGED BOthers
    /\ blog.published < MaxMsgs
    /\ blog' = [blog EXCEPT !.published = @ + 1]
    /\ inbox' = IF bus.subscribed THEN Append(inbox, Event("pmessage", data)) ELSE inbox
    /\ UNCHANGED <<bus, loop>>

\* A loop that starts the handler without awaiting it and takes the next event.
AtListenOrHandling(pc) == pc \in {"waiting", "handling"}
\* async for event in pubsub.listen(): the loop is back at the iterator only
\* after await self._handle_event(event) returned.
AtListen(pc) == pc = "waiting"

\* pubsub.listen() yields the next event: the loop breaks when _running is
\* cleared, skips events that are no message, and for a message runs
\* _handle_event up to the await of the handler.
Receive ==
    /\ UNCHANGED BOthers
    /\ AtListen(loop.pc)
    /\ inbox # << >>
    /\ inbox' = Tail(inbox)
    /\ LET ev == Head(inbox) IN
         IF ~bus.running
         THEN /\ loop' = [pc |-> "exited", cur |-> NoEvent]
              /\ blog' = [blog EXCEPT !.outcomes = Append(@, Outcome(ev, "dropped"))]
         ELSE IF ev.type \notin {"message", "pmessage"}
         THEN /\ blog' = [blog EXCEPT !.outcomes = Append(@, Outcome(ev, "skipped"))]
              /\ UNCHANGED loop
         ELSE IF ev.data \notin Kinds
         THEN /\ loop' = [pc |-> AfterFailure("decode"), cur |-> NoEvent]
              /\ blog' = [blog EXCEPT !.outcomes = Append(@, Outcome(ev, "decode_error"))]
         ELSE IF ~HasHandler(bus.handlers, ev.data)
         THEN /\ blog' = [blog EXCEPT !.outcomes = Append(@, Outcome(ev, "ignored"))]
              /\ UNCHANGED loop
         ELSE /\ loop' = [pc |-> "handling", cur |-> ev]
              /\ blog' = [blog EXCEPT !.invoked = Append(@, ev.data)]
    /\ UNCHANGED bus

\* The awaited handler returns, or raises.
HandlerDone(raises) ==
    /\ UNCHANGED BOthers
    /\ loop.pc = "handling"
    /\ loop' = [pc |-> IF raises THEN AfterFailure("handler") ELSE "waiting", cur |-> NoEvent]
    /\ blog' = [blog EXCEPT !.outcomes =
                  Append(@, Outcome(loop.cur, IF raises THEN "raised" ELSE "handled"))]
    /\ UNCHANGED <<bus, inbox>>

\* The task waits in pubsub.listen() on a connection that was closed under
\* it: the receive ends the generator or raises out of the task, if it ever
\* returns at all.
ListenOnClosed(outcome) ==
    /\ UNCHANGED BOthers
    /\ loop.pc = "waiting"
    /\ bus.closed
    /\ loop' = [pc |-> outcome, cur |-> NoEvent]
    /\ UNCHANGED <<bus, inbox, blog>>

BInit ==
    /\ bus = [client |-> FALSE, pubsub |-> FALSE, subscribed |-> FALSE, running |-> FALSE,
              handlers |-> {}, closed |-> FALSE]
    /\ loop = [pc |-> "none", cur |-> NoEvent]
    /\ inbox = << >>
    /\ blog = [published |-> 0, outcomes |-> << >>, invoked |-> << >>, connect |-> "none",
               stopped |-> FALSE]

NextBus ==
    \/ RegisterHandlers
    \/ Connect
    \/ Subscribe
    \/ StartListening
    \/ StopListening
    \/ Disconnect
    \/ \E outcome \in {"exited", "failed"} : ListenOnClosed(outcome)
    \/ \E data \in Published : Publish(data)
    \/ Receive
    \/ \E raises \in BOOLEAN : HandlerDone(raises)

\* ------------------------------------------------------------- PlanaGateway: commands

\* The setting names of a refresh event that carry a command, and one that does not.
CommandNames == {"levels", "achievements", "rss"}
RefreshNames == CommandNames \cup {"welcome"}

\* A command-bearing sub-config as the backend holds it: 0 is no record (None,
\* or [] for the feeds), 1 is disabled (no feed), 2 is enabled (some feed).
CfgValues == {1, 2}

\* handle_guild_config_refresh: the enable flag read off the refreshed
\* GuildSettings; guild_settings.levels.enabled raises on a None sub-config,
\* len(guild_settings.rss_feeds) > 0 does not.
DesiredEnable(name, cfg) ==
    IF name = "rss" THEN (IF cfg = 2 THEN "yes" ELSE "no")
    ELSE IF cfg = 0 THEN "raise"
    ELSE IF cfg = 2 THEN "yes" ELSE "no"

\* A reconciliation that adds whenever the sub-config is enabled.
CommandActionAddEnabled(enable, cmd) ==
    IF enable THEN "add" ELSE IF cmd THEN "remove" ELSE "none"

\* A reconciliation that removes whatever it finds registered.
CommandActionRemoveFound(enable, cmd) ==
    IF cmd THEN "remove" ELSE "none"

\* _handle_command_action after fetch_commands: the branch taken for the
\* desired state and for whether the command was found.
CommandAction(enable, cmd) ==
    IF ~cmd THEN "none"
    ELSE IF enable /\ ~cmd THEN "add"
    ELSE IF ~enable /\ cmd THEN "remove"
    ELSE "none"

IdleRec == [pc |-> "idle", name |-> "none", enable |-> "none", cmd |-> FALSE,
            adds |-> 0, removes |-> 0, err |-> "none"]
NoProcessed == [name |-> "none", enable |-> "none", cmd |-> FALSE, adds |-> 0,
                removes |-> 0, err |-> "none", repeat |-> FALSE]
NoPrevious == [enable |-> "none", err |-> "none"]

\* The handler returns: the event r is processed. repeat: the event before it
\* for the same name asked for the same state, and neither met an error.
Finish(r) ==
    /\ rec' = IdleRec
    /\ rlast' = [last |-> [name |-> r.name, enable |-> r.enable, cmd |-> r.cmd,
                           adds |-> r.adds, removes |-> r.removes, err |-> r.err,
                           repeat |-> /\ r.enable # "none"
                                      /\ r.err = "none"
                                      /\ rlast.prev[r.name] = [enable |-> r.enable,
                                                               err |-> "none"]],
                 prev |-> [rlast.prev EXCEPT ![r.name] = [enable |-> r.enable,
                                                          err |-> r.err]]]

\* A handler that refreshes whatever guild the envelope names.
KnownGuildAny(guild_id) == TRUE
\* core.get_guild(event_data.guild_id): None for a guild the process is not in.
KnownGuild(guild_id) == guild_id \in CoreGuilds

\* handle_guild_config_refresh up to its first await, GuildManager.refresh;
\* it returns at once when core.get_guild finds no guild.
ConfigRefreshStart(guild_id, name) ==
    /\ UNCHANGED ROthers
    /\ rec.pc = "idle"
    /\ IF KnownGuild(guild_id)
       THEN /\ rec' = [IdleRec EXCEPT !.pc = "refresh", !.name = name]
            /\ UNCHANGED rlast
       ELSE /\ rlast' = [rlast EXCEPT !.last = [NoProcessed EXCEPT !.name = name,
                                                                  !.err = "no_guild"]]
            /\ UNCHANGED rec
    /\ UNCHANGED <<cmdcfg, cfgcache, registered>>

RefreshedConfigStale(before, after) == before

\* guild_settings.<name> as the handler reads it off what GuildManager.refresh
\* returned: before is the sub-config cached when refresh was called, after
\* the one refresh fetched and assigned.
RefreshedConfig(before, after) == after

\* GuildManager.refresh assigns the fetched sub-config (None or [] when its
\* requests failed) to the cached settings and returns them; for a
\* command-bearing name _handle_command_action starts and awaits
\* fetch_commands.
ConfigRefreshed(out) ==
    /\ UNCHANGED ROthers
    /\ rec.pc = "refresh"
    /\ LET cfg == RefreshedConfig(IF rec.name \in CommandNames THEN cfgcache[rec.name] ELSE 0,
                               make_request(out, cmdcfg[rec.name]))
           want == DesiredEnable(rec.name, cfg)
       IN IF rec.name \notin CommandNames
          THEN Finish(rec)
          ELSE IF want = "raise"
               THEN Finish([rec EXCEPT !.err = "handler"])
               ELSE /\ rec' = [rec EXCEPT !.pc = "fetch", !.enable = want]
                    /\ UNCHANGED rlast
    /\ cfgcache' = IF rec.name \in CommandNames
                   THEN [cfgcache EXCEPT ![rec.name] = make_request(out, cmdcfg[rec.name])]
                   ELSE cfgcache
    /\ UNCHANGED <<cmdcfg, registered>>

\* fetch_commands answers (or raises): the command is looked up by name and
\* the add or remove call, if any, is issued.
CommandsFetched(ok) ==
    /\ UNCHANGED ROthers
    /\ rec.pc = "fetch"
    /\ IF ~ok
       THEN Finish([rec EXCEPT !.err = "gateway"])
       ELSE LET cmd == rec.name \in registered
                act == CommandAction(rec.enable = "yes", cmd)
                r == [rec EXCEPT !.cmd = cmd]
            IN IF act = "none"
               THEN Finish(r)
               ELSE /\ rec' = [r EXCEPT !.pc = act,
                                        !.adds = IF act = "add" THEN @ + 1 ELSE @,
                                        !.removes = IF act = "remove" THEN @ + 1 ELSE @]
                    /\ UNCHANGED rlast
    /\ UNCHANGED <<cmdcfg, cfgcache, registered>>

\* tree.add_command / tree.remove_command answers (or raises).
CommandCallDone(ok) ==
    /\ UNCHANGED ROthers
    /\ rec.pc \in {"add", "remove"}
    /\ registered' = IF ~ok THEN registered
                     ELSE IF rec.pc = "add" THEN registered \cup {rec.name}
                     ELSE registered \ {rec.name}
    /\ Finish(IF ok THEN rec ELSE [rec EXCEPT !.err = "gateway"])
    /\ UNCHANGED <<cmdcfg, cfgcache>>

\* An admin enables or disables a sub-config (adds or deletes the feeds).
AdminSetConfig(name, v) ==
    /\ UNCHANGED ROthers
    /\ cmdcfg[name] # v
    /\ cmdcfg' = [cmdcfg EXCEPT ![name] = v]
    /\ UNCHANGED <<cfgcache, registered, rec, rlast>>

\* Every sub-config starts disabled (enabled defaults to False) and cached as
\* the backend holds it (on_ready refreshes every guild), and every command
\* registered (the tree is synced at setup).
RInit ==
    /\ cmdcfg = [n \in RefreshNames |-> 1]
    /\ cfgcache = [n \in CommandNames |-> 1]
    /\ registered = CommandNames
    /\ rec = IdleRec
    /\ rlast = [last |-> NoProcessed, prev |-> [n \in RefreshNames |-> NoPrevious]]

NextReconcile ==
    \/ \E g \in CoreGuilds, name \in RefreshNames : ConfigRefreshStart(g, name)
    \/ \E out \in {"ok", "fail"} : ConfigRefreshed(out)
    \/ \E ok \in BOOLEAN : CommandsFetched(ok)
    \/ \E ok \in BOOLEAN : CommandCallDone(ok)
    \/ \E name \in CommandNames, v \in CfgValues : AdminSetConfig(name, v)

\* ------------------------------------------------------------- process lifecycle

Timers == {"user", "guild"}

\* Plana.cog_load: both tasks.loop timers are started; each first runs its
\* before_loop, which awaits wait_until_ready.
PlanaCogLoad ==
    /\ UNCHANGED LOthers
    /\ \A t \in Timers : life.timers[t] = "stopped"
    /\ life' = [life EXCEPT !.timers = [t \in Timers |-> "gated"]]
    /\ UNCHANGED tracker

\* The gateway client signals ready.
GatewayReady ==
    /\ UNCHANGED LOthers
    /\ ~life.ready
    /\ life' = [life EXCEPT !.ready = TRUE]
    /\ UNCHANGED tracker

\* wait_until_ready returns in the before_loop of timer t: its loop starts.
TimerReleased(t) ==
    /\ UNCHANGED LOthers
    /\ life.timers[t] = "gated"
    /\ life.ready
    /\ life' = [life EXCEPT !.timers[t] = "running"]
    /\ UNCHANGED tracker

\* A tick of the user timer with dirty users: batch_user_update_task.
UserTimerBody ==
    /\ life.timers["user"] = "running"
    /\ FlushStart

\* on_guild_update and the other gateway listeners: GuildDataTracker.mark_dirty.
TrackerMarkDirty(g) ==
    /\ UNCHANGED LOthers
    /\ g \notin tracker.dirty
    /\ tracker' = [tracker EXCEPT !.dirty = @ \cup {g}]
    /\ UNCHANGED life

\* What a caller hands to Guild.refresh: the gateway's guild object
\* (on_ready, on_guild_join) or, from update_dirty, the guild id.
GuildObject(g) == [obj |-> TRUE, id |-> g]
UpdateDirtyArg(g) == [obj |-> FALSE, id |-> g]

\* Guild.from_discord_guild reads guild.id, guild.name, guild.members, ... of
\* its argument: on a guild id the attribute access raises.
FromDiscordGuild(guild) == IF guild.obj THEN "snapshot" ELSE "raised"

IdlePush(base, last) == [base EXCEPT !.pc = "idle", !.rest = {}, !.last = last]

\* update_dirty from the guild it is about to refresh, base being the push
\* record so far and todo the guilds its iteration has not reached: Guild.refresh raises at once or issues its
\* PUT; with nothing left clean_all runs. A set that changed its size since
\* the iteration began makes the iteration raise.
UpdateDirtyFrom(base, todo, size) ==
    IF Cardinality(tracker.dirty) # size
    THEN /\ gpush' = IdlePush(base, "raised")
         /\ tracker' = [tracker EXCEPT !.raised = TRUE]
    ELSE IF todo = {}
    THEN /\ gpush' = IdlePush(base, "done")
         /\ tracker' = [tracker EXCEPT !.dirty = {}]
    ELSE \E g \in todo :
         IF FromDiscordGuild(UpdateDirtyArg(g)) = "raised"
         THEN /\ gpush' = IdlePush(base, "raised")
              /\ tracker' = [tracker EXCEPT !.raised = TRUE]
         ELSE /\ gpush' = [base EXCEPT !.pc = "put", !.g = g, !.by = "flush",
                                        !.rest = todo \ {g}, !.size = size]
              /\ UNCHANGED tracker

\* A tick of the guild timer with dirty guilds: batch_guild_update_task calls
\* GuildDataTracker.update_dirty and logs what it raises.
GuildTimerBody ==
    /\ UNCHANGED WOthers
    /\ life.timers["guild"] = "running"
    /\ gpush.pc = "idle"
    /\ tracker.dirty # {}
    /\ UpdateDirtyFrom(gpush, tracker.dirty, Cardinality(tracker.dirty))
    /\ UNCHANGED life

\* on_ready / on_guild_join: Guild.refresh(guild) on the gateway's guild
\* object, up to its PUT.
GuildRefreshCall(g) ==
    /\ UNCHANGED WOthers
    /\ gpush.pc = "idle"
    /\ gpush.n < MaxRefreshes
    /\ gpush' = IF FromDiscordGuild(GuildObject(g)) = "raised"
                THEN [gpush EXCEPT !.n = @ + 1]
                ELSE [gpush EXCEPT !.pc = "put", !.g = g, !.by = "hook", !.n = @ + 1]
    /\ UNCHANGED lvars

\* Guild.update returns: with a response the snapshot is stored, without one
\* Guild.create is awaited. A refresh called by update_dirty then goes on
\* with the next dirty guild.
GuildPutDone(ok) ==
    /\ UNCHANGED WOthers
    /\ gpush.pc = "put"
    /\ UNCHANGED life
    /\ IF ~ok
       THEN /\ gpush' = [gpush EXCEPT !.pc = "post"]
            /\ UNCHANGED tracker
       ELSE IF gpush.by = "flush"
       THEN UpdateDirtyFrom([gpush EXCEPT !.pushed[gpush.g] = TRUE], gpush.rest, gpush.size)
       ELSE /\ gpush' = [gpush EXCEPT !.pc = "idle", !.pushed[gpush.g] = TRUE]
            /\ UNCHANGED tracker

\* Guild.create returns, its response unread.
GuildPostDone(ok) ==
    /\ UNCHANGED WOthers
    /\ gpush.pc = "post"
    /\ UNCHANGED life
    /\ IF gpush.by = "flush"
       THEN UpdateDirtyFrom([gpush EXCEPT !.pushed[gpush.g] = (@ \/ ok)], gpush.rest, gpush.size)
       ELSE /\ gpush' = [gpush EXCEPT !.pc = "idle", !.pushed[gpush.g] = (@ \/ ok)]
            /\ UNCHANGED tracker

\* await self._listening_task in cog_unload, for a task at pc: the await is
\* pending while the task is inside its loop, re-raises what the task raised,
\* and returns otherwise (CancelledError is caught and passed).
AwaitTaskSkipped(pc) == "returned"

AwaitTask(pc) ==
    IF pc \in {"waiting", "handling"} THEN "pending"
    ELSE IF pc \in {"failed", "refused"} THEN "raised"
    ELSE "returned"

\* PlanaGateway.cog_unload up to its await: the listen task is cancelled.
UnloadCancel ==
    /\ UNCHANGED <<uvars, gvars, rvars, mvars, evars, wvars, xvars, pvars, tracker>>
    /\ life.unload = "none"
    /\ loop.pc # "none"
    /\ life' = [life EXCEPT !.unload = "awaiting"]
    /\ UNCHANGED bvars

\* The cancelled task is resumed with CancelledError at its await (in
\* pubsub.listen() or inside the handler); except Exception does not catch it.
TaskCancelled ==
    /\ UNCHANGED <<uvars, gvars, rvars, lvars, mvars, evars, wvars, xvars, pvars>>
    /\ life.unload = "awaiting"
    /\ loop.pc \in {"waiting", "handling"}
    /\ loop' = [pc |-> "cancelled", cur |-> NoEvent]
    /\ UNCHANGED <<bus, inbox, blog>>

\* cog_unload after the await: stop_listening and disconnect, or the except
\* branch when the await re-raised.
UnloadClose ==
    /\ UNCHANGED <<uvars, gvars, rvars, mvars, evars, wvars, xvars, pvars, tracker>>
    /\ life.unload = "awaiting"
    /\ AwaitTask(loop.pc) # "pending"
    /\ IF AwaitTask(loop.pc) = "raised"
       THEN /\ life' = [life EXCEPT !.unload = "aborted"]
            /\ UNCHANGED bvars
       ELSE /\ life' = [life EXCEPT !.unload = "done"]
            /\ bus' = [bus EXCEPT !.running = FALSE,
                                  !.closed = bus.client,
                                  !.subscribed = IF bus.client THEN FALSE ELSE @]
            /\ inbox' = IF bus.client THEN << >> ELSE inbox
            /\ blog' = [blog EXCEPT !.connect = "none"]
            /\ UNCHANGED loop

\* cog_load, step by step: the handlers are registered, then connect, then
\* subscribe_to_guilds, then the start_listening task is created.
CogLoadConnect == bus.handlers = GatewayKinds /\ ~bus.client /\ Connect
CogLoadSubscribe == bus.client /\ Subscribe
CogLoadStartTask ==
    bus.subscribed /\ loop.pc = "none" /\ life.unload = "none" /\ StartListening

LInit ==
    /\ life = [ready |-> FALSE, timers |-> [t \in Timers |-> "stopped"], unload |-> "none"]
    /\ tracker = [dirty |-> {}, raised |-> FALSE]

WInit ==
    gpush = [pc |-> "idle", g |-> 1, by |-> "hook", rest |-> {}, size |-> 0,
             pushed |-> [g \in GuildIds |-> FALSE], n |-> 0, last |-> "none"]

\* The gateway cog from load to unload, with the broker publishing.
NextUnload ==
    \/ RegisterHandlers
    \/ CogLoadConnect
    \/ CogLoadSubscribe
    \/ CogLoadStartTask
    \/ \E data \in Published : Publish(data)
    \/ Receive
    \/ \E raises \in BOOLEAN : HandlerDone(raises)
    \/ UnloadCancel
    \/ TaskCancelled
    \/ UnloadClose

\* Guild write-back: the guild timer from load on, the gateway hooks marking
\* guilds dirty, and Guild.refresh called with the gateway's guild object.
NextGuildFlush ==
    \/ PlanaCogLoad
    \/ GatewayReady
    \/ \E t \in Timers : TimerReleased(t)
    \/ \E g \in GuildIds : TrackerMarkDirty(g)
    \/ GuildTimerBody
    \/ \E g \in GuildIds : GuildRefreshCall(g)
    \/ \E ok \in BOOLEAN : GuildPutDone(ok)
    \/ \E ok \in BOOLEAN : GuildPostDone(ok)

\* Start of the process: cogs load, the gateway becomes ready, timers tick
\* and the broker publishes, while one user and the guild get dirty.
ReadyKeys == {<<1, 1>>}
NextReady ==
    \/ PlanaCogLoad
    \/ GatewayReady
    \/ \E t \in Timers : TimerReleased(t)
    \/ \E t \in Tasks, k \in ReadyKeys : CallMiss(t, "update_property", k, "levels")
    \/ \E t \in Tasks : FetchGet(t, TRUE)
    \/ \E k \in ReadyKeys : UpdatePropertyHit(k, "levels")
    \/ UserTimerBody
    \/ \E ok \in BOOLEAN : FlushDone(ok)
    \/ \E g \in GuildIds : TrackerMarkDirty(g)
    \/ GuildTimerBody
    \/ RegisterHandlers
    \/ CogLoadConnect
    \/ CogLoadSubscribe
    \/ CogLoadStartTask
    \/ Publish("GUILD_CONFIG_REFRESH")
    \/ Receive
    \/ \E raises \in BOOLEAN : HandlerDone(raises)

\* ------------------------------------------------------------- PlanaGateway: messages
\* The channels of each guild of core.guilds; the records of the backend.
GuildChannels == [g \in CoreGuilds |-> {1}]
RecordIds == {1, 2}

\* A Message validated from the envelope's data; 0 is a field left None.
MessageData(id, guild_id, channel_id, reactions) ==
    [id |-> id, guild_id |-> guild_id, channel_id |-> channel_id, reactions |-> reactions]

\* MESSAGE_CREATE envelopes the broker delivers, each any number of times:
\* two sendable records (one with reactions), a record whose channel the
\* guild does not have, a record without id, an envelope of a guild the
\* process is not in, and an envelope without data.
MsgEnvelopes ==
    { [guild_id |-> 1, has_data |-> TRUE, data |-> MessageData(1, 1, 1, FALSE)],
      [guild_id |-> 1, has_data |-> TRUE, data |-> MessageData(2, 1, 1, TRUE)],
      [guild_id |-> 1, has_data |-> TRUE, data |-> MessageData(1, 1, 2, FALSE)],
      [guild_id |-> 1, has_data |-> TRUE, data |-> MessageData(0, 1, 1, FALSE)],
      [guild_id |-> 2, has_data |-> TRUE, data |-> MessageData(2, 2, 1, FALSE)],
      [guild_id |-> 1, has_data |-> FALSE, data |-> MessageData(0, 0, 0, FALSE)] }

\* Message._exists
MessageExists(m) ==
    /\ m.channel_id # 0
    /\ m.guild_id # 0
    /\ m.guild_id \in CoreGuilds
    /\ m.channel_id \in GuildChannels[m.guild_id]

SaveStepUnchecked(discord_message, id) == "saving"

\* What follows message.send(): discord_message is the id of the message
\* sent, 0 when send returned None. Reading .id of None raises, and save()
\* raises on a record without id; otherwise the PUT is issued.
SaveStep(discord_message, id) ==
    IF discord_message = 0 THEN "error"
    ELSE IF id = 0 THEN "error"
    ELSE "saving"

IdleMsg(env, out, n) == [pc |-> "idle", env |-> env, mid |-> 0, out |-> out, n |-> n]

AfterSend(env, n, discord_message) ==
    IF SaveStep(discord_message, env.data.id) = "saving"
    THEN [pc |-> "saving", env |-> env, mid |-> discord_message, out |-> "none", n |-> n]
    ELSE IdleMsg(env, "error", n)

\* handle_message_action for MESSAGE_CREATE, up to its first await: the two
\* early returns, then send(), which returns None at once when the
\* message's guild or channel is missing.
MessageCreateStart(env) ==
    /\ mh.pc = "idle"
    /\ mh.n < MaxDeliveries
    /\ mh' = IF ~env.has_data THEN IdleMsg(env, "no_data", mh.n + 1)
             ELSE IF env.guild_id \notin CoreGuilds THEN IdleMsg(env, "ignored", mh.n + 1)
             ELSE IF ~MessageExists(env.data) THEN AfterSend(env, mh.n + 1, 0)
             ELSE [pc |-> "sending", env |-> env, mid |-> 0, out |-> "none", n |-> mh.n + 1]
    /\ UNCHANGED <<sent, mstore>>
    /\ UNCHANGED MOthers

\* channel.send returns or raises; with reactions on the record, add_reaction
\* may raise after the message was sent. The gateway gives every message a
\* fresh id.
ChannelSendDone(out) ==
    /\ mh.pc = "sending"
    /\ out = "reaction_raised" => mh.env.data.reactions
    /\ sent' = IF out = "raised" THEN sent
               ELSE Append(sent, [env |-> mh.env, mid |-> Len(sent) + 1])
    /\ mh' = IF out = "sent" THEN AfterSend(mh.env, mh.n, Len(sent) + 1)
             ELSE IdleMsg(mh.env, "error", mh.n)
    /\ UNCHANGED mstore
    /\ UNCHANGED MOthers

\* save(): the PUT of the record with its message_id; the backend stores it
\* unless the request fails (make_api_request then returns None).
SaveDone(ok) ==
    /\ mh.pc = "saving"
    /\ mstore' = [puts |-> Append(mstore.puts, [id |-> mh.env.data.id, message_id |-> mh.mid]),
                  rows |-> IF ok THEN [mstore.rows EXCEPT ![mh.env.data.id] = mh.mid]
                           ELSE mstore.rows]
    /\ mh' = IdleMsg(mh.env, IF ok THEN "saved" ELSE "unsaved", mh.n)
    /\ UNCHANGED sent
    /\ UNCHANGED MOthers

MInit ==
    /\ mh = IdleMsg(CHOOSE e \in MsgEnvelopes : ~e.has_data, "none", 0)
    /\ sent = << >>
    /\ mstore = [puts |-> << >>, rows |-> [r \in RecordIds |-> 0]]

NextMessage ==
    \/ \E env \in MsgEnvelopes : MessageCreateStart(env)
    \/ \E out \in {"sent", "raised", "reaction_raised"} : ChannelSendDone(out)
    \/ \E ok \in BOOLEAN : SaveDone(ok)

\* ------------------------------------------------------------- PlanaGateway: message edits and deletes
\* Remote ids of the messages the channel holds at the start.
ChannelMessages == {1}

\* A Message validated from the data of an UPDATE or DELETE envelope; 0 is a
\* field left None.
StoredData(id, guild_id, channel_id, message_id) ==
    [id |-> id, guild_id |-> guild_id, channel_id |-> channel_id, message_id |-> message_id]

\* MESSAGE_UPDATE / MESSAGE_DELETE envelopes: a record whose remote message
\* is in the channel, a record without remote id, a record whose channel the
\* guild does not have, a record whose remote message is gone, an envelope
\* of a guild the process is not in, and an envelope without data.
OpEnvelopes ==
    { [guild_id |-> 1, has_data |-> TRUE, data |-> StoredData(1, 1, 1, 1)],
      [guild_id |-> 1, has_data |-> TRUE, data |-> StoredData(1, 1, 1, 0)],
      [guild_id |-> 1, has_data |-> TRUE, data |-> StoredData(1, 1, 2, 1)],
      [guild_id |-> 1, has_data |-> TRUE, data |-> StoredData(2, 1, 1, 2)],
      [guild_id |-> 2, has_data |-> TRUE, data |-> StoredData(2, 2, 1, 1)],
      [guild_id |-> 1, has_data |-> FALSE, data |-> StoredData(0, 0, 0, 0)] }

IdleOp(kind, env, out, n) == [pc |-> "idle", kind |-> kind, env |-> env, out |-> out, n |-> n]
BusyOp(pc, kind, env, n) == [pc |-> pc, kind |-> kind, env |-> env, out |-> "none", n |-> n]

\* Message.edit up to its first gateway call: None when the context is
\* missing or no message_id is known, else fetch_message is awaited.
EditStep(exists, message_id) ==
    IF ~exists THEN "none"
    ELSE IF message_id = 0 THEN "none"
    ELSE "fetch"

\* MESSAGE_UPDATE: the handler formats discord_message.channel.name into its
\* debug line whatever edit() returned; on None that read raises, and the
\* except branch reports the failure through core.handle_exception.
UpdateReturned(discord_message) ==
    IF discord_message = 0 THEN "error" ELSE "updated"

DeleteStepUnchecked(exists, message_id) == "fetch"

\* MESSAGE_DELETE up to its first gateway call: it returns when the context
\* is missing or no message_id is known, else fetch_message is awaited.
DeleteStep(exists, message_id) ==
    IF ~exists THEN "return"
    ELSE IF message_id = 0 THEN "return"
    ELSE "fetch"

\* handle_message_action for MESSAGE_UPDATE, up to its first await.
MessageUpdateStart(env) ==
    /\ eh.pc = "idle"
    /\ eh.n < MaxDeliveries
    /\ LET n == eh.n + 1
           fetch == /\ env.has_data
                    /\ env.guild_id \in CoreGuilds
                    /\ EditStep(MessageExists(env.data), env.data.message_id) = "fetch"
       IN  /\ eh' = IF ~env.has_data THEN IdleOp("update", env, "no_data", n)
                    ELSE IF env.guild_id \notin CoreGuilds THEN IdleOp("update", env, "ignored", n)
                    ELSE IF fetch THEN BusyOp("fetching", "update", env, n)
                    ELSE IdleOp("update", env, UpdateReturned(0), n)
           /\ gw' = IF fetch
                    THEN [gw EXCEPT !.calls = Append(@, [op |-> "fetch", mid |-> env.data.message_id])]
                    ELSE gw
    /\ UNCHANGED EOthers

\* handle_message_action for MESSAGE_DELETE, up to its first await.
MessageDeleteStart(env) ==
    /\ eh.pc = "idle"
    /\ eh.n < MaxDeliveries
    /\ LET n == eh.n + 1
           fetch == /\ env.has_data
                    /\ env.guild_id \in CoreGuilds
                    /\ DeleteStep(MessageExists(env.data), env.data.message_id) = "fetch"
       IN  /\ eh' = IF ~env.has_data THEN IdleOp("delete", env, "no_data", n)
                    ELSE IF env.guild_id \notin CoreGuilds THEN IdleOp("delete", env, "ignored", n)
                    ELSE IF fetch THEN BusyOp("fetching", "delete", env, n)
                    ELSE IdleOp("delete", env, "skipped", n)
           /\ gw' = IF fetch
                    THEN [gw EXCEPT !.calls = Append(@, [op |-> "fetch", mid |-> env.data.message_id])]
                    ELSE gw
    /\ UNCHANGED EOthers

\* channel.fetch_message returns the message when the channel holds it, and
\* raises otherwise (or on a failed request); the handler then issues its
\* edit or delete call on the message fetched.
MessageFetched(found) ==
    /\ eh.pc = "fetching"
    /\ found => eh.env.data.message_id \in ChannelMessages \ gw.deleted
    /\ IF found
       THEN /\ eh' = BusyOp(IF eh.kind = "update" THEN "editing" ELSE "deleting",
                            eh.kind, eh.env, eh.n)
            /\ gw' = [gw EXCEPT !.calls =
                          Append(@, [op |-> IF eh.kind = "update" THEN "edit" ELSE "delete",
                                     mid |-> eh.env.data.message_id])]
       ELSE /\ eh' = IdleOp(eh.kind, eh.env, "error", eh.n)
            /\ gw' = gw
    /\ UNCHANGED EOthers

\* discord_message.edit (with its reaction calls) or discord_message.delete
\* returns or raises.
GatewayCallDone(ok) ==
    /\ eh.pc \in {"editing", "deleting"}
    /\ eh' = IdleOp(eh.kind, eh.env,
                    IF ~ok THEN "error"
                    ELSE IF eh.kind = "update" THEN UpdateReturned(eh.env.data.message_id)
                    ELSE "deleted",
                    eh.n)
    /\ gw' = IF ok /\ eh.kind = "delete"
             THEN [gw EXCEPT !.deleted = @ \cup {eh.env.data.message_id}]
             ELSE gw
    /\ UNCHANGED EOthers

EInit ==
    /\ eh = IdleOp("none", CHOOSE e \in OpEnvelopes : ~e.has_data, "none", 0)
    /\ gw = [calls |-> << >>, deleted |-> {}]

NextMessageOp ==
    \/ \E env \in OpEnvelopes : MessageUpdateStart(env)
    \/ \E env \in OpEnvelopes : MessageDeleteStart(env)
    \/ \E found \in BOOLEAN : MessageFetched(found)
    \/ \E ok \in BOOLEAN : GatewayCallDone(ok)

UInit ==
    /\ users = [k \in Keys |-> NoEntry]
    /\ dirty_users = {}
    /\ store = [k \in Keys |-> IF k[2] % 2 = 1 THEN Record(DefaultUserData) ELSE NoRecord]
    /\ tasks = [t \in Tasks |-> IdleTask]
    /\ initing = {}
    /\ flush = IdleFlush
    /\ unacked = {}
    /\ calls = 0
    /\ inits = 0

Init == UInit /\ GInit /\ BInit /\ RInit /\ LInit /\ MInit /\ EInit /\ WInit /\ XInit /\ PInit

NextUser ==
    \/ \E k \in HomeKeys : GetHit(k)
    \/ \E k \in HomeKeys, p \in Props : UpdatePropertyHit(k, p)
    \/ \E t \in Tasks, k \in HomeKeys : CallMiss(t, "get", k, "none")
    \/ \E t \in Tasks, k \in HomeKeys, p \in Props : CallMiss(t, "update_property", k, p)
    \/ \E t \in Tasks, ok \in BOOLEAN : FetchGet(t, ok)
    \/ \E t \in Tasks, ok \in BOOLEAN : FetchCreate(t, ok)
    \/ \E g \in GuildIds : InitStart(g)
    \/ \E g \in GuildIds, ok \in BOOLEAN : InitDone(g, ok)
    \/ FlushStart
    \/ \E ok \in BOOLEAN : FlushDone(ok)

SpecUser == Init /\ [][NextUser]_vars
SpecGuild == Init /\ [][NextGuild]_vars
SpecBus == Init /\ [][NextBus]_vars
SpecReconcile == Init /\ [][NextReconcile]_vars
SpecUnload == Init /\ [][NextUnload]_vars
SpecReady == Init /\ [][NextReady]_vars
SpecMessage == Init /\ [][NextMessage]_vars
SpecMessageOp == Init /\ [][NextMessageOp]_vars
SpecGuildFlush == Init /\ [][NextGuildFlush]_vars
SpecGuildReset == Init /\ [][NextGuildReset]_vars
SpecProperty == Init /\ [][NextProperty]_vars

\* UserManager.init of any served guild next to update_property calls on one
\* user of each guild.
InitKeys == {k \in Keys : k[2] = 1}
NextInit ==
    \/ \E k \in InitKeys, p \in Props : UpdatePropertyHit(k, p)
    \/ \E t \in Tasks, k \in InitKeys, p \in Props : CallMiss(t, "update_property", k, p)
    \/ \E t \in Tasks, ok \in BOOLEAN : FetchGet(t, ok)
    \/ \E t \in Tasks, ok \in BOOLEAN : FetchCreate(t, ok)
    \/ \E g \in GuildIds \cup OtherGuildIds : InitStart(g)
    \/ \E g \in GuildIds \cup OtherGuildIds, ok \in BOOLEAN : InitDone(g, ok)
SpecInit == Init /\ [][NextInit]_vars

\* The guild cache as on_ready leaves it: GuildManager.refresh(guild.id) has
\* cached a composite of the default sub-configs the backend created.
ReadyOid == MaxGuildCalls + 1
ReadyFields == [f \in Fields |-> IF f \in Singletons THEN 1 ELSE 0]
GInitReady ==
    /\ settings = [g \in GuildIds |-> [oid |-> ReadyOid, f |-> ReadyFields]]
    /\ gstore = [g \in GuildIds |-> ReadyFields]
    /\ gtasks = [t \in GTasks |-> IdleGTask]
    /\ gcount = [calls |-> 0, events |-> 0]
    /\ glast = NoCall
InitReady ==
    UInit /\ GInitReady /\ BInit /\ RInit /\ LInit /\ MInit /\ EInit /\ WInit /\ XInit /\ PInit

\* After on_ready: refreshes of the levels by name next to a full refresh or
\* a reset of the guild, while an admin changes the levels.
NextGuildLive ==
    \/ \E g \in GuildIds : GuildPartialStart("partial", g, "levels")
    \/ \E g \in GuildIds : GuildFullStart("full", "refresh", g)
    \/ \E t \in GTasks, out \in {"ok", "fail"} : GuildFetchGet(t, out)
    \/ \E t \in GTasks, out \in {"ok", "fail"} : GuildFetchCreate(t, out)
    \/ \E g \in GuildIds : AdminChange(g, "levels")
    \/ \E g \in GuildIds : GuildResetStart(g)
    \/ \E out \in {"ok", "fail"} : GuildDeleteDone(out)
    \/ \E out \in {"ok", "fail"} : GuildListFetched(out)
    \/ \E out \in {"ok", "fail"} : GopFetchGet(out)
    \/ \E out \in {"ok", "fail"} : GopFetchCreate(out)
SpecGuildLive == InitReady /\ [][NextGuildLive]_vars

\* Events of a guild the process is in and of one it is not in: refreshes of
\* the levels, and creations, edits and deletions of a stored message, with
\* the backend answering every request.
NextEvents ==
    \/ \E g \in CoreGuilds \cup UnservedGuilds : ConfigRefreshStart(g, "levels")
    \/ \E out \in {"ok"} : ConfigRefreshed(out)
    \/ \E ok \in {TRUE} : CommandsFetched(ok)
    \/ \E ok \in {TRUE} : CommandCallDone(ok)
    \/ \E env \in {e \in MsgEnvelopes : e.data.id = 2} : MessageCreateStart(env)
    \/ \E out \in {"sent", "raised"} : ChannelSendDone(out)
    \/ \E ok \in BOOLEAN : SaveDone(ok)
    \/ \E env \in {e \in OpEnvelopes : e.data.message_id = 1 /\ e.data.channel_id = 1} :
           MessageUpdateStart(env) \/ MessageDeleteStart(env)
    \/ \E found \in BOOLEAN : MessageFetched(found)
    \/ \E ok \in BOOLEAN : GatewayCallDone(ok)
SpecEvents == Init /\ [][NextEvents]_vars

\* The subscriber as cog_load drives it, with the listen task created first
\* and run later, next to stop_listening and the broker's deliveries.
NextStop ==
    \/ RegisterHandlers
    \/ Subscribe
    \/ ListenTaskCreated
    \/ ListenTaskRuns
    \/ StopListening
    \/ \E data \in Published : Publish(data)
    \/ Receive
    \/ \E raises \in BOOLEAN : HandlerDone(raises)
SpecStop == Init /\ [][NextStop]_vars

\* The event loop keeps running the listen task: an event the broker has is
\* received, and an awaited handler finishes. Nothing obliges anyone to publish.
FairSpecBus ==
    /\ SpecBus
    /\ WF_vars(Receive)
    /\ WF_vars(\E raises \in BOOLEAN : HandlerDone(raises))

\* Only get calls, on both caches, against a backend that may fail.
NextGet ==
    \/ \E g \in GuildIds : GuildGetHit(g)
    \/ \E t \in GTasks, g \in GuildIds : GuildFullStart(t, "get", g)
    \/ \E t \in GTasks, out \in {"ok", "fail"} : GuildFetchGet(t, out)
    \/ \E t \in GTasks, out \in {"ok", "fail"} : GuildFetchCreate(t, out)
    \/ \E k \in HomeKeys : GetHit(k)
    \/ \E t \in Tasks, k \in HomeKeys : CallMiss(t, "get", k, "none")
    \/ \E t \in Tasks, ok \in BOOLEAN : FetchGet(t, ok)
    \/ \E t \in Tasks, ok \in BOOLEAN : FetchCreate(t, ok)
SpecGet == Init /\ [][NextGet]_vars

\* Only updates and flushes of the user cache.
NextWriteBack ==
    \/ \E k \in HomeKeys, p \in Props : UpdatePropertyHit(k, p)
    \/ \E t \in Tasks, k \in HomeKeys, p \in Props : CallMiss(t, "update_property", k, p)
    \/ \E t \in Tasks, ok \in BOOLEAN : FetchGet(t, ok)
    \/ \E t \in Tasks, ok \in BOOLEAN : FetchCreate(t, ok)
    \/ FlushStart
    \/ \E ok \in BOOLEAN : FlushDone(ok)

\* The flush timer keeps firing, every request is answered, and a bulk write
\* that is retried again and again eventually succeeds.
FairSpecWriteBack ==
    /\ Init /\ [][NextWriteBack]_vars
    /\ WF_vars(FlushStart)
    /\ WF_vars(\E ok \in BOOLEAN : FlushDone(ok))
    /\ SF_vars(FlushDone(TRUE))
    /\ WF_vars(\E t \in Tasks, ok \in BOOLEAN : FetchGet(t, ok))
    /\ WF_vars(\E t \in Tasks, ok \in BOOLEAN : FetchCreate(t, ok))

Next ==
    NextUser \/ NextGuild \/ NextBus \/ NextReconcile \/ NextUnload \/ NextReady
        \/ NextMessage \/ NextMessageOp \/ NextGuildFlush \/ NextGuildReset
        \/ NextProperty \/ NextInit \/ NextGuildLive \/ NextEvents \/ NextStop

Spec == Init /\ [][Next]_vars

\* ------------------------------------------------------------- claims

\* The cached value of k is newer than the last confirmed backend write: one of
\* its slots holds a record that no acknowledged bulk write carried.
Newer(us, un, k) == us[k].st = "user" /\ \E p \in Props : <<k, p, us[k].data[p]>> \in un

\* C1: a key that was dirty when the flush started and that update_property
\* marked again while the bulk write was in flight is still dirty when the
\* flush completes.
C1_LostUpdateSafety ==
    [][\A ok \in BOOLEAN : FlushDone(ok) =>
          \A k \in (flush.before \cap flush.remarked) \cap dirty_users : k \in dirty_users']_vars

\* C2: when the bulk write fails, the dirty set after update_dirty equals the
\* dirty set before the call (nothing else having touched it in between).
C2_FailedFlushKeepsDirty ==
    [][FlushDone(FALSE) /\ dirty_users = flush.before => dirty_users' = flush.before]_vars

\* C3: no step removes a key from the dirty set and leaves its cached value
\* newer than the last confirmed backend write.
C3_DirtyClearedOnlyByAck ==
    [][\A k \in Keys : k \in dirty_users /\ k \notin dirty_users'
          => ~Newer(users', unacked', k)]_vars

\* C4: the flush issues exactly one bulk write, whose payload is the cached
\* user_data of every key dirty at that moment; when it succeeds with no
\* update in flight the keys cleared are exactly the captured ones and the
\* dirty set is empty.
C4_FlushWritesSnapshot ==
    [][/\ FlushStart => flush'.reqs = <<[k \in dirty_users |-> users[k].data]>>
       /\ (FlushDone(TRUE) /\ flush.remarked = {} /\ dirty_users = flush.before)
             => /\ Len(flush.reqs) = 1
                /\ DOMAIN flush.reqs[1] = flush.before
                /\ dirty_users \ dirty_users' = flush.before
                /\ dirty_users' = {}]_vars

\* C4 witness: two keys were updated, one successful flush carried both
\* records to the backend, and nothing is dirty or unacknowledged.
C4_Witness ==
    /\ flush.pc = "idle"
    /\ dirty_users = {}
    /\ unacked = {}
    /\ \E k1, k2 \in Keys :
         /\ k1 # k2
         /\ \E p \in Props : store[k1].data[p] > 0 /\ users[k1].data[p] = store[k1].data[p]
         /\ \E p \in Props : store[k2].data[p] > 0 /\ users[k2].data[p] = store[k2].data[p]

\* C5: every record written by update_property is eventually carried by an
\* acknowledged bulk write (or superseded by a later write to its slot).
C5_EventualWriteBack ==
    \A k \in Keys, p \in Props, v \in 1..MaxCalls :
        (<<k, p, v>> \in unacked) ~> (<<k, p, v>> \notin unacked)

\* The partial refresh of task t returns in this step.
PartialReturns(t) == gtasks[t].op = "partial" /\ gtasks'[t].pc = "idle"
\* The cold get of task t returns in this step.
ColdGetReturns(t) == gtasks[t].op = "get" /\ gtasks'[t].pc = "idle"

\* C6: when a partial refresh returns, the cached entry is the same instance
\* and every sibling field holds exactly the value it held just before, local
\* mutations made during the fetch included; the named field of the instance
\* the refresh read holds the fetched value.
C6_PartialRefreshIsolation ==
    [][\A t \in GTasks : PartialReturns(t) =>
          LET g == gtasks[t].g
              field == gtasks[t].todo[1]
          IN /\ settings'[g].oid = settings[g].oid
             /\ \A f \in Fields \ {field} : settings'[g].f[f] = settings[g].f[f]
             /\ settings[g].oid = gtasks[t].oid =>
                   settings'[g].f[field] = IF field \in glast'.unavail THEN 0
                                           ELSE gstore'[g][field]]_vars

\* C6 witness: a partial refresh returned with the value an admin had just
\* set, and the sibling that was mutated locally during its fetch is intact.
C6_Witness ==
    /\ glast.op = "partial"
    /\ glast.sibmut
    /\ glast.field \in Fields
    /\ \E g \in GuildIds :
         /\ settings[g].f[glast.field] = 2
         /\ \E f \in Fields \ {glast.field} : settings[g].f[f] = 3

\* C7: a get on a cached guild or user puts no request in flight and touches
\* neither cache nor backend, and a cached guild entry stays what the first
\* get returned, so a second get returns equal values.
C7_CacheHitNoBackendCall ==
    [][/\ \A g \in GuildIds : GuildGetHit(g) => UNCHANGED <<settings, gstore, gtasks>>
       /\ \A g \in GuildIds : settings[g].oid # 0 => settings'[g] = settings[g]
       /\ \A k \in Keys : GetHit(k) => UNCHANGED <<users, store, tasks, initing, flush>>]_vars

\* C7 witness: a guild with no backend record was fetched (every default
\* created), and a second get then hit the cache.
C7_Witness ==
    /\ glast.op = "get_hit"
    /\ \A t \in GTasks : gtasks[t].pc = "idle"
    /\ \E g \in GuildIds : \A f \in Singletons : settings[g].f[f] = 1 /\ gstore[g][f] = 1

\* C8 as stated: a cold get issues exactly 6 backend calls.
C8_SixBackendCalls ==
    glast.op = "get" => glast.gets + Cardinality(glast.posted) = 6

\* C8 amended: a cold get issues 7 GETs, one per sub-config, and one creation
\* POST for each of the five singleton sub-configs whose GET came back empty
\* or failed; when it returns the composite is the cached entry.
C8_ColdGetCalls ==
    /\ [](glast.op = "get" =>
            /\ glast.gets = 7
            /\ glast.posted = glast.missed \cap {"preferences", "levels", "welcome",
                                                "achievements", "ai"})
    /\ [][\A t \in GTasks : ColdGetReturns(t) =>
             /\ settings'[gtasks[t].g].oid = gtasks[t].id
             /\ \A f \in Fields \ {gtasks[t].todo[1]} :
                   settings'[gtasks[t].g].f[f] = gtasks[t].acc[f]]_vars

\* C8 witness: the cold get of a guild with no backend record returned after
\* 7 GETs and 5 POSTs, and its composite is cached.
C8_Witness ==
    /\ glast.op = "get"
    /\ glast.gets = 7
    /\ Cardinality(glast.posted) = 5
    /\ \E g \in GuildIds : settings[g].oid # 0 /\ \A f \in Singletons : settings[g].f[f] = 1

\* C9: a cold get never raises; it returns a GuildSettings that is cached and
\* in which every sub-config the backend gave nothing for is None (or []).
C9_GetNeverRaises ==
    /\ [](glast.op = "get" => ~glast.raised)
    /\ [][\A t \in GTasks : ColdGetReturns(t) =>
             /\ ~glast'.raised
             /\ settings'[gtasks[t].g].oid = gtasks[t].id
             /\ \A f \in glast'.unavail : settings'[gtasks[t].g].f[f] = 0]_vars

\* C9 witness: a cold get returned although the GET of a singleton found
\* nothing and its creation POST failed; that sub-config is None, another one
\* is present.
C9_Witness ==
    /\ glast.op = "get"
    /\ ~glast.raised
    /\ \E g \in GuildIds, f1, f2 \in Singletons :
         /\ f1 \in glast.unavail /\ f1 \in glast.posted
         /\ settings[g].oid # 0
         /\ settings[g].f[f1] = 0
         /\ settings[g].f[f2] > 0

\* C10: the listen loop never ends on a malformed message or a raising
\* handler (it leaves only by the stop signal, or when its connection was
\* closed under it), and every valid envelope of a
\* registered kind it receives while running invokes its handler exactly once.
C10_DispatchIsolation ==
    /\ [](loop.pc # "crashed")
    /\ [](loop.pc = "exited" => (~bus.running \/ bus.closed))
    /\ [][(/\ Receive /\ bus.running
           /\ Head(inbox).type \in {"message", "pmessage"}
           /\ Head(inbox).data \in bus.handlers)
          => blog'.invoked = Append(blog.invoked, Head(inbox).data)]_vars
    /\ [][blog'.invoked # blog.invoked => (loop.pc = "waiting" /\ inbox # << >>
                                          /\ Len(blog'.invoked) = Len(blog.invoked) + 1)]_vars

\* C10 witness: after a malformed envelope and a handler that raised, a valid
\* guild-config-refresh envelope was handled, its handler invoked once.
C10_Witness ==
    /\ Len(blog.outcomes) >= 3
    /\ \E i, j, k \in DOMAIN blog.outcomes :
         /\ i < k /\ j < k
         /\ blog.outcomes[i][2] = "decode_error"
         /\ blog.outcomes[j][2] = "raised"
         /\ blog.outcomes[k] = <<"GUILD_CONFIG_REFRESH", "handled">>
    /\ Len(SelectSeq(blog.invoked, LAMBDA x : x = "GUILD_CONFIG_REFRESH")) = 1
    /\ loop.pc = "waiting"

\* The handler of a refresh event returns in this step.
RefreshProcessed == rec.pc # "idle" /\ rec'.pc = "idle"

\* C11: once a refresh for levels, achievements or rss is processed without
\* errors, the command is registered exactly if the refreshed sub-config is
\* enabled; an enabled sub-config whose command was not registered got one add.
C11_ReconcileConverges ==
    (rlast.last.name \in CommandNames /\ rlast.last.err = "none"
        /\ rlast.last.enable # "none")
    => /\ (rlast.last.name \in registered) <=> (rlast.last.enable = "yes")
       /\ (rlast.last.enable = "yes" /\ ~rlast.last.cmd) => rlast.last.adds = 1

\* C12: a refresh that finds the command registered and the sub-config
\* enabled issues no add and no remove; and processing again an event that
\* asks for the same state as the one before it (both without errors) leaves
\* the registered commands as they were.
C12_ReconcileIdempotent ==
    /\ []((rlast.last.err = "none" /\ rlast.last.enable = "yes" /\ rlast.last.cmd)
             => (rlast.last.adds = 0 /\ rlast.last.removes = 0))
    /\ [][(RefreshProcessed /\ rlast'.last.repeat) => registered' = registered]_vars

\* C12 witness: the same refresh of an enabled sub-config whose command is
\* registered was processed twice in a row.
C12_Witness ==
    /\ rlast.last.repeat
    /\ rlast.last.enable = "yes"
    /\ rlast.last.cmd
    /\ rlast.last.name \in registered

\* C13: one refresh event issues at most one registration call, and no add
\* for a command that fetch_commands found registered.
C13_AtMostOneCall ==
    /\ rec.adds + rec.removes <= 1
    /\ rlast.last.adds + rlast.last.removes <= 1
    /\ rec.adds > 0 => ~rec.cmd
    /\ rlast.last.adds > 0 => ~rlast.last.cmd

\* C13 witness: a processed refresh of a disabled sub-config issued its one
\* call, a remove, and the command is gone.
C13_Witness ==
    /\ rlast.last.removes = 1
    /\ rlast.last.adds = 0
    /\ rlast.last.err = "none"
    /\ rlast.last.cmd
    /\ rlast.last.name \notin registered

\* The start_listening task is inside its loop.
LoopActive == loop.pc \in {"waiting", "handling"}

\* The lifecycle state of the bus, read off its fields.
BusState ==
    IF ~bus.client \/ bus.closed THEN "Disconnected"
    ELSE IF LoopActive /\ bus.running THEN "Listening"
    ELSE IF LoopActive \/ loop.pc = "exited" THEN "Stopping"
    ELSE IF bus.subscribed THEN "Subscribed"
    ELSE "Connected"

\* Disconnected -> Connected -> Subscribed -> Listening -> Stopping -> Disconnected
BusSucc(st) ==
    CASE st = "Disconnected" -> "Connected"
      [] st = "Connected" -> "Subscribed"
      [] st = "Subscribed" -> "Listening"
      [] st = "Listening" -> "Stopping"
      [] st = "Stopping" -> "Disconnected"

\* C14: once stop_listening() has cleared the flag of a listening bus, the
\* loop leaves without a further broker message, and the connection of a
\* stopped bus is never closed while the loop is still inside.
C14_CooperativeStop ==
    /\ []((bus.closed /\ ~bus.running) => ~LoopActive)
    /\ ((LoopActive /\ ~bus.running) ~> ~LoopActive)

\* C17: every call moves the bus to the successor of its state in the chain
\* or leaves it in its state (subscribe_to_guilds on a bus without a
\* connection connects on its way, passing through Connected).
C17_LifecycleChain ==
    [][\/ BusState' = BusState
       \/ BusState' = BusSucc(BusState)
       \/ (BusState = "Disconnected" /\ ~bus.client /\ BusState' = "Subscribed")]_vars

\* C18: after a connect() call the bus holds an open connection: the one it
\* had, or a fresh one when it had none or its connection had been closed.
C18_ConnectOpens ==
    blog.connect # "none" => (bus.client /\ ~bus.closed)

\* C15: on cog unload the connection is closed only after the cancelled
\* listen task has ended: it is never closed while the task is inside its loop.
C15_CloseAfterTaskEnds ==
    bus.closed => ~LoopActive

\* C15 witness: the cog was unloaded while its listen task, which had already
\* dispatched an event, was running: the task is cancelled, the connection closed.
C15_Witness ==
    /\ life.unload = "done"
    /\ bus.closed
    /\ loop.pc = "cancelled"
    /\ Len(blog.invoked) > 0

\* C16: before the gateway is ready no flush timer runs its flush and the
\* listen loop invokes no handler.
C16_ReadyGating ==
    [][/\ UserTimerBody => life.ready
       /\ GuildTimerBody => life.ready
       /\ blog'.invoked # blog.invoked => life.ready]_vars

\* C19: every PUT of a message record follows a send of the same handling
\* and carries that record's id with the id the gateway returned for it; a
\* handling that sent nothing makes no PUT.
C19_PersistAfterSend ==
    /\ \A i \in DOMAIN mstore.puts :
           \E j \in DOMAIN sent :
               /\ sent[j].mid = mstore.puts[i].message_id
               /\ sent[j].env.data.id = mstore.puts[i].id
    /\ \A i, j \in DOMAIN mstore.puts :
           mstore.puts[i].message_id = mstore.puts[j].message_id => i = j
    /\ mh.pc = "saving" =>
           /\ Len(sent) > 0
           /\ sent[Len(sent)] = [env |-> mh.env, mid |-> mh.mid]
           /\ \A i \in DOMAIN mstore.puts : mstore.puts[i].message_id # mh.mid

\* C19 witness: one envelope was sent and its id stored, and the handling of
\* an envelope whose channel is missing ended with nothing sent or stored.
C19_Witness ==
    /\ Len(sent) = 1
    /\ Len(mstore.puts) = 1
    /\ mstore.rows[1] = sent[1].mid
    /\ mh.pc = "idle"
    /\ mh.out = "error"
    /\ ~MessageExists(mh.env.data)

\* C20: however often an envelope is delivered, at most one message is sent
\* for it.
C20_AtMostOneSend ==
    \A e \in MsgEnvelopes :
        Cardinality({i \in DOMAIN sent : sent[i].env = e}) <= 1

\* C21: handling a MESSAGE_UPDATE whose record has no remote message id
\* issues no gateway call, writes nothing to the backend and does not end
\* in the handler's error branch.
C21_UpdateWithoutIdNoop ==
    [][\A env \in OpEnvelopes :
           (/\ MessageUpdateStart(env)
            /\ env.has_data
            /\ env.guild_id \in CoreGuilds
            /\ MessageExists(env.data)
            /\ env.data.message_id = 0)
           => /\ gw' = gw
              /\ mstore' = mstore
              /\ eh'.pc = "idle"
              /\ eh'.out # "error"]_vars

\* C22: a fetch or delete call of a MESSAGE_DELETE handling is issued only
\* for a record whose guild and channel exist and whose remote id is known,
\* and the delete call follows the fetch call of the same handling.
C22_DeleteAfterExistenceCheck ==
    [][(gw'.calls # gw.calls /\ eh'.kind = "delete")
       => /\ eh'.env.has_data
          /\ eh'.env.data.guild_id \in CoreGuilds
          /\ eh'.env.data.channel_id \in GuildChannels[eh'.env.data.guild_id]
          /\ eh'.env.data.message_id # 0
          /\ LET call == gw'.calls[Len(gw'.calls)]
             IN  /\ call.mid = eh'.env.data.message_id
                 /\ call.op = "delete" =>
                        /\ eh = BusyOp("fetching", "delete", eh'.env, eh'.n)
                        /\ gw.calls[Len(gw.calls)] = [op |-> "fetch", mid |-> call.mid]]_vars

\* C22 witness: a delete handling of a record with channel and remote id
\* deleted the message, and a later delete handling of a record whose
\* channel is missing returned with no further call.
C22_Witness ==
    /\ gw.deleted = {1}
    /\ gw.calls = <<[op |-> "fetch", mid |-> 1], [op |-> "delete", mid |-> 1]>>
    /\ eh = IdleOp("delete", [guild_id |-> 1, has_data |-> TRUE, data |-> StoredData(1, 1, 2, 1)],
                   "skipped", 2)

\* A step that ends a guild flush: the tick that raised at once, or the
\* resumption after the last push of update_dirty.
GuildFlushEnds ==
    /\ gpush'.pc = "idle"
    /\ \/ GuildTimerBody
       \/ (gpush.by = "flush" /\ gpush.pc # "idle")

C24_FlushPushesAndClears ==
    [][GuildFlushEnds =>
           /\ \A g \in tracker.dirty : gpush'.pushed[g]
           /\ tracker'.dirty = {}]_vars

\* C25: a flush whose push failed leaves dirty every entry it did not get
\* acknowledged, for users and for guilds, and the timer that ran it keeps
\* running.
C25_FailedFlushKeepsDirty ==
    [][/\ FlushDone(FALSE) =>
              /\ \A k \in dirty_users : k \in dirty_users'
              /\ life'.timers["user"] = "running"
       /\ (GuildFlushEnds /\ gpush'.last = "raised") =>
              /\ \A g \in tracker.dirty : g \in tracker'.dirty
              /\ life'.timers["guild"] = "running"]_vars

\* C26: whatever fetch failed before, a get served from the cache returns a
\* valid User, and update_property on a cached key does not raise.
C26_FetchFailureNotPermanent ==
    [][\A k \in Keys :
           /\ GetHit(k) => users[k].st = "user"
           /\ \A p \in Props :
                  UpdatePropertyHit(k, p) =>
                      ~ApplyUpdate(users, dirty_users, k, p, calls + 1).raised]_vars

\* C27: when the guild-removal handler returns, the cache holds no entry for
\* the guild removed.
C27_RemovedGuildEvicted ==
    [][(gop.op = "remove" /\ gop.pc # "idle" /\ gop'.pc = "idle")
       => settings'[gop.g].oid = 0]_vars

\* C28: reset issues no DELETE once the first fetch of its full refresh is
\* out, by then every singleton and every list entry it found has had its
\* DELETE issued, and when reset returns the cache entry is the composite
\* that refresh fetched, a new object in place of the entry before.
C28_ResetDeletesThenRefreshes ==
    [][/\ (gop'.op = "reset" /\ gop'.dels # gop.dels) => gop'.pc = "delete"
       /\ (gop'.op = "reset" /\ gop'.pc = "get" /\ gop.pc \notin {"get", "create"})
              => (Singletons \subseteq gop'.dels /\ gop'.found \subseteq gop'.dels)
       /\ (gop.op = "reset" /\ gop.pc # "idle" /\ gop'.pc = "idle")
              => /\ settings'[gop.g] = [oid |-> gop.id, f |-> gop'.acc]
                 /\ settings'[gop.g].oid # settings[gop.g].oid]_vars

\* C28 witness: a reset of a guild has returned after deleting a list entry
\* it found: the entry an earlier call had cached is replaced by the default
\* composite the reset fetched.
C28_Witness ==
    /\ gop.op = "reset"
    /\ gop.pc = "idle"
    /\ "rss_feeds" \in gop.dels
    /\ settings[1].oid = gop.id
    /\ gop.id = 2
    /\ settings[1].f["levels"] = 1
    /\ settings[1].f["preferences"] = 1

\* C29: reconciliation starts only from the step in which the refresh of
\* the changed name returns, and the enable flag it is started with is read
\* off the sub-config that refresh fetched and cached.
C29_RefreshBeforeReconcile ==
    [][(rec'.pc = "fetch" /\ rec.pc # "fetch")
       => /\ rec.pc = "refresh"
          /\ rec'.name = rec.name
          /\ \E out \in {"ok", "fail"} :
                 /\ cfgcache'[rec.name] = make_request(out, cmdcfg[rec.name])
                 /\ rec'.enable = DesiredEnable(rec.name, make_request(out, cmdcfg[rec.name]))]_vars

\* C29 witness: reconciliation of levels was started to enable the command
\* after the refresh replaced the cached disabled levels by the enabled ones.
C29_Witness ==
    /\ rec.pc = "fetch"
    /\ rec.name = "levels"
    /\ rec.enable = "yes"
    /\ cfgcache["levels"] = 2

\* C30: an update_property that ends with a User under its key has stored
\* its record in the named slot and marked the key dirty, has written
\* nothing to the backend on a cache hit, and has left every other slot of
\* that user, where the user was cached, and every other user as they were.
C30_UpdatePropertyFrame ==
    [][/\ \A k \in Keys, p \in Props :
              (UpdatePropertyHit(k, p) /\ users[k].st = "user")
              => /\ users'[k].data[p] = calls + 1
                 /\ k \in dirty_users'
                 /\ store' = store
                 /\ \A q \in Props \ {p} : users'[k].data[q] = users[k].data[q]
                 /\ \A k2 \in Keys \ {k} : users'[k2] = users[k2]
       /\ \A t \in Tasks :
              (/\ tasks[t].op = "update_property"
               /\ tasks[t].pc # "idle"
               /\ tasks'[t].pc = "idle"
               /\ users'[tasks[t].key].st = "user")
              => LET k == tasks[t].key
                     p == tasks[t].prop
                 IN  /\ users'[k].data[p] = tasks[t].val
                     /\ k \in dirty_users'
                     /\ \A k2 \in Keys \ {k} : users'[k2] = users[k2]
                     /\ users[k].st = "user" =>
                            \A q \in Props \ {p} : users'[k].data[q] = users[k].data[q]]_vars

\* C31: get_property after update_property(record), for every record type,
\* returns a record equal to the one written (here: equal in every field the
\* type persists), and get_property on a missing slot creates the empty slot
\* and returns the record with every field at its default.
C31_PropertyRoundTrip ==
    [][\A cls \in PropertyTypes :
          GetProperty(cls)
          => /\ plast'.ret = "record"
             /\ plast.written[cls].set
                => \A f \in ModelFields(cls) \ ExcludedFields(cls) :
                       plast'.value[f] = plast.written[cls].rec[f]
             /\ (PropertyName(cls) \in PropertySlots /\ ~pdata[PropertyName(cls)].present)
                => /\ pdata'[PropertyName(cls)] = StoredSlot(EmptyDict)
                   /\ \A f \in ModelFields(cls) : plast'.value[f] = FieldDefault(f)]_vars

\* C32: when UserManager.init(g) returns, every user of g the backend
\* returned is cached under its key with the fetched data and is not dirty,
\* and the entries and dirty markers of the other guilds are as before.
C32_InitLoadsGuildClean ==
    [][\A g \in GuildIds \cup OtherGuildIds, ok \in BOOLEAN :
          InitDone(g, ok)
          => /\ \A k \in Keys :
                    (ok /\ k[1] = g /\ store[k].present)
                    => users'[k] = UserEntry(store[k].data) /\ k \notin dirty_users'
             /\ \A k \in Keys :
                    k[1] # g => /\ users'[k] = users[k]
                                /\ (k \in dirty_users' <=> k \in dirty_users)]_vars

\* init(1) has replaced a dirty entry of guild 1 while a user of guild 2 is
\* cached and dirty.
C32_Witness ==
    /\ initing = {} /\ inits = 1
    /\ <<<<1, 1>>, "levels", 1>> \in unacked
    /\ users[<<1, 1>>] = UserEntry(store[<<1, 1>>].data)
    /\ <<1, 1>> \notin dirty_users
    /\ users[<<2, 1>>].st = "user" /\ users[<<2, 1>>].data["levels"] = 2
    /\ <<2, 1>> \in dirty_users

\* C33: a received message whose kind has no registered handler (the reserved
\* command kinds among them), or whose envelope does not decode to a known
\* kind, invokes no handler, changes nothing outside the listen loop, and
\* leaves the loop waiting for the next message.
C33_UnhandledKindIgnored ==
    [][(/\ Receive
        /\ bus.running
        /\ Head(inbox).type \in {"message", "pmessage"}
        /\ Head(inbox).data \notin bus.handlers)
       => /\ blog'.invoked = blog.invoked
          /\ loop'.pc = "waiting" /\ loop'.cur = NoEvent
          /\ bus' = bus
          /\ UNCHANGED <<uvars, gvars, rvars, lvars, mvars, evars, wvars, xvars, pvars>>]_vars

\* With the gateway's handlers registered, a reserved kind and an undecodable
\* envelope have both been received and the loop waits for the next message.
C33_Witness ==
    /\ bus.handlers = GatewayKinds
    /\ bus.running
    /\ loop.pc = "waiting"
    /\ \E i, j \in DOMAIN blog.outcomes :
           /\ blog.outcomes[i] = <<"COMMAND_REGISTER", "ignored">>
           /\ blog.outcomes[j] = <<"malformed", "decode_error">>

\* C34: a value written by update_property that no flush has acknowledged,
\* and that the cache holds, is still in the cache after UserManager.init
\* of its guild returns: a re-load never replaces it by a fetched value.
C34_ReloadKeepsUnflushed ==
    [][\A g \in GuildIds \cup OtherGuildIds, ok \in BOOLEAN :
          InitDone(g, ok)
          => \A w \in unacked :
                 (users[w[1]].st = "user" /\ users[w[1]].data[w[2]] = w[3])
                 => (users'[w[1]].st = "user" /\ users'[w[1]].data[w[2]] = w[3])]_vars

\* C35: when an update_property that was suspended on the cache-miss fetch
\* returns with a User cached under its key, the key is dirty and the cached
\* User still holds every unflushed record another call wrote into it while
\* this one was suspended, next to the record this call wrote.
C35_ColdUpdatesBothKept ==
    [][\A t \in Tasks :
          (/\ tasks[t].op = "update_property"
           /\ tasks[t].pc # "idle"
           /\ tasks'[t].pc = "idle"
           /\ users'[tasks[t].key].st = "user")
          => LET k == tasks[t].key IN
               /\ k \in dirty_users'
               /\ users'[k].data[tasks[t].prop] = tasks[t].val
               /\ \A w \in unacked :
                      (/\ w[1] = k /\ w[2] # tasks[t].prop
                       /\ users[k].st = "user" /\ users[k].data[w[2]] = w[3])
                      => users'[k].data[w[2]] = w[3]]_vars

\* C36: when a partial GuildManager.refresh(g, name) returns, the entry
\* cached for g is the GuildSettings object the call read and returns, also
\* when a reset of g replaced the cache entry while its fetch was in flight.
C36_PartialRefreshLandsInLiveEntry ==
    [][(/\ gtasks["partial"].op = "partial"
        /\ gtasks'["partial"].pc = "idle"
        /\ glast'.op = "partial" /\ ~glast'.raised)
       => settings'[gtasks["partial"].g].oid = gtasks["partial"].oid]_vars

\* C37: GuildManager.refresh(g, name) with g cached and a name that is none
\* of the recognised sub-config names issues no backend request and leaves
\* the cached entry, every field of it, as it was.
C37_UnknownNameRefreshNoop ==
    [][\A g \in GuildIds, name \in Names :
          (/\ GuildPartialStart("partial", g, name)
           /\ name \notin {"preferences", "levels", "welcome", "achievements",
                            "react_roles", "rss", "ai"})
          => /\ settings' = settings
             /\ gstore' = gstore
             /\ gtasks' = gtasks
             /\ glast'.op = "partial" /\ glast'.gets = 0 /\ glast'.posted = {}
             /\ ~glast'.raised]_vars

\* A refresh by an unrecognised name has returned for a cached guild.
C37_Witness ==
    /\ glast.op = "partial" /\ glast.field = "none" /\ glast.gets = 0
    /\ settings[1].oid # 0
    /\ gtasks["partial"].pc = "idle"

\* C38: an event whose guild_id is not a guild of the process has no effect:
\* a message creation, edit or deletion returns with nothing sent, fetched,
\* edited, deleted or saved, and a config refresh returns with no fetch, no
\* cache change and no command registered or removed.
C38_UnservedGuildNoEffect ==
    [][/\ \A env \in MsgEnvelopes :
              (env.has_data /\ env.guild_id \notin CoreGuilds /\ MessageCreateStart(env))
              => /\ mh'.pc = "idle" /\ mh'.out = "ignored"
                 /\ UNCHANGED <<sent, mstore, evars, rvars, uvars, gvars>>
       /\ \A env \in OpEnvelopes :
              (/\ env.has_data /\ env.guild_id \notin CoreGuilds
               /\ (MessageUpdateStart(env) \/ MessageDeleteStart(env)))
              => /\ eh'.pc = "idle" /\ eh'.out = "ignored"
                 /\ UNCHANGED <<gw, mvars, rvars, uvars, gvars>>
       /\ \A g \in UnservedGuilds, name \in RefreshNames :
              ConfigRefreshStart(g, name)
              => /\ rec'.pc = "idle"
                 /\ UNCHANGED <<cmdcfg, cfgcache, registered, mvars, evars, uvars, gvars>>]_vars

\* A refresh, a creation and an edit or deletion of a guild the process is
\* not in have all been handled.
C38_Witness ==
    /\ rlast.last.err = "no_guild"
    /\ mh.pc = "idle" /\ mh.out = "ignored" /\ mh.env.guild_id \in UnservedGuilds
    /\ eh.pc = "idle" /\ eh.out = "ignored" /\ eh.env.guild_id \in UnservedGuilds

\* The handlers that have returned or raised so far.
HandlersReturned ==
    Cardinality({i \in DOMAIN blog.outcomes : blog.outcomes[i][2] \in {"handled", "raised"}})

\* C39: events are dispatched one at a time in delivery order: a handler is
\* invoked only while none is in flight, for the oldest delivered event, and
\* no event is taken from the subscription while a handler is in flight; the
\* handlers invoked and not yet returned are never more than one.
C39_OneHandlerInOrder ==
    /\ [][/\ blog'.invoked # blog.invoked
             => /\ loop.pc = "waiting" /\ loop'.pc = "handling"
                /\ inbox # << >>
                /\ blog'.invoked = Append(blog.invoked, Head(inbox).data)
                /\ loop'.cur = Head(inbox)
                /\ inbox' = Tail(inbox)
          /\ (loop.pc = "handling" /\ loop'.pc = "handling")
             => /\ loop'.cur = loop.cur
                /\ (inbox' = inbox \/ (Len(inbox') > Len(inbox) /\ SubSeq(inbox', 1, Len(inbox)) = inbox)
                    \/ Disconnect)]_vars
    /\ [](Len(blog.invoked) - HandlersReturned = (IF loop.pc = "handling" THEN 1 ELSE 0))

\* Two events were handled one after the other and a third is waiting in the
\* subscription while the second handler is in flight.
C39_Witness ==
    /\ loop.pc = "handling"
    /\ Len(blog.invoked) = 2
    /\ HandlersReturned = 1
    /\ inbox # << >>

\* C40: once stop_listening has returned, and until start_listening is called
\* again, no event is dispatched to a handler, also when the stop came
\* after the listen task was created and before it first ran.
C40_NoDispatchAfterStop ==
    [][(blog.stopped /\ blog'.stopped) => blog'.invoked = blog.invoked]_vars
====
